---- MODULE Spec2Model ----
(***************************************************************************)
(* Verification model of ComfyUI-Prompt-Companion's client code:           *)
(*   - the subprompt resolution engine of PromptEditDialog                 *)
(*     (web/extensions.js), as a step machine and as a recursive operator; *)
(*   - removeDuplicateTerms;                                               *)
(*   - the edit dialog's asynchronous snapshot loads;                      *)
(*   - the tree view's folder operations (PromptTreeView).                 *)
(* Strings are sequences of one-character strings, so that trim, split,    *)
(* includes, toLowerCase and join are computed and not assumed.            *)
(***************************************************************************)
EXTENDS Integers, Sequences, FiniteSets, Bags, TLC

VARIABLES
    allSubprompts,  \* PromptEditDialog.allSubprompts: the snapshot (a sequence of records)
    root,           \* the subprompt object handed to resolveSubpromptRecursively
    stack,          \* call stack of resolveSubpromptRecursively (top = last)
    log,            \* console.warn calls and (ghost) recursive entries, in order
    result,         \* value returned by the outermost resolveSubpromptRecursively
    final,          \* resolveNestedSubprompts' finalResult (after removeDuplicateTerms)
    pc,             \* position of the resolution: "idle", "resolving", "returned", "done"
    currentSubprompt,       \* PromptEditDialog.currentSubprompt: 0 (null) or an index of the store
    form,                   \* values of #subprompt-positive and #subprompt-negative
    nestedList,             \* items of #subprompt-nested-list, in DOM order
    preview,                \* content of #subprompt-preview
    loads,                  \* calls of loadNestedSubprompts suspended at their fetch
    issued,                 \* (ghost) number of loadNestedSubprompts calls made so far
    arrivals,               \* (ghost) the calls whose fetch has returned, in order of return
    pendingPreviewUpdate,   \* PromptEditDialog.pendingPreviewUpdate
    frames,                 \* preview updates waiting for their first animation frame
    timers,                 \* preview updates past their first animation frame
    storeFolders,           \* the server's folders: id -> [name, parent_id]
    storeSubprompts,        \* the server's subprompts: id -> [name, folder_id] (full records for the editor)
    created,                \* number of folders the server has created
    treeData,               \* PromptTreeView.treeData: the last loaded snapshot
    inflight,               \* the tree view's operations suspended at a request (a bag)
    draggedItem,            \* PromptTreeView.draggedItem
    dropTarget,             \* (ghost) targetItem of the last handleDrop
    promotion,              \* (ghost) the store as the last deleteFolderAndMoveContents found it
    walk,                   \* the locals of calculateFolderPath or buildPathFromFolder
    promptState,            \* PromptState: data, ui.isLoading and its saveAddition calls
    editPanel,              \* PromptEditDialog.unsavedChanges, the object held by currentSubprompt,
                            \* PromptTreeView.selectedItems and the click being handled
    manager                 \* PromptAdditionManager: promptAdditions, selectedAdditionName, the
                            \* additions of the server and the rename being made

engineVars == <<allSubprompts, root, stack, log, result, final, pc>>

dialogVars == <<currentSubprompt, form, nestedList, preview, loads, issued, arrivals,
                pendingPreviewUpdate, frames, timers>>

treeState == <<storeFolders, storeSubprompts, created, treeData, inflight,
               draggedItem, dropTarget, promotion>>

\* what the handlers of the tree view do not touch
treeAside == <<promotion, walk, promptState, editPanel, manager>>

treeVars == <<treeState, walk, promptState, editPanel, manager>>

vars == <<engineVars, dialogVars, treeVars>>

----------------------------------------------------------------------------
(* JavaScript string primitives *)

\* String.prototype.trim on the characters of the model: leading spaces
RECURSIVE trimStart(_)
trimStart(s) ==
    IF s = <<>> THEN <<>>
    ELSE IF Head(s) = " " THEN trimStart(Tail(s)) ELSE s

RECURSIVE trimEnd(_)
trimEnd(s) ==
    IF s = <<>> THEN <<>>
    ELSE IF s[Len(s)] = " " THEN trimEnd(SubSeq(s, 1, Len(s) - 1)) ELSE s

trim(s) == trimEnd(trimStart(s))

UpperLetters == <<"A", "B", "C", "D", "E", "F", "G", "H", "I", "J", "K", "L", "M",
                  "N", "O", "P", "Q", "R", "S", "T", "U", "V", "W", "X", "Y", "Z">>
LowerLetters == <<"a", "b", "c", "d", "e", "f", "g", "h", "i", "j", "k", "l", "m",
                  "n", "o", "p", "q", "r", "s", "t", "u", "v", "w", "x", "y", "z">>

lowerChar(c) ==
    IF \E k \in 1..Len(UpperLetters) : UpperLetters[k] = c
    THEN LowerLetters[CHOOSE k \in 1..Len(UpperLetters) : UpperLetters[k] = c]
    ELSE c

toLowerCase(s) == [k \in 1..Len(s) |-> lowerChar(s[k])]

\* s.startsWith(sub)
startsWith(s, sub) ==
    /\ Len(sub) <= Len(s)
    /\ SubSeq(s, 1, Len(sub)) = sub

\* String.prototype.includes
includes(s, sub) ==
    \E k \in 0..(Len(s) - Len(sub)) : SubSeq(s, k + 1, k + Len(sub)) = sub

\* index (0-based offset) of the first occurrence of sep in s; requires includes(s, sep)
indexOf(s, sep) ==
    CHOOSE k \in 0..(Len(s) - Len(sep)) :
        /\ SubSeq(s, k + 1, k + Len(sep)) = sep
        /\ \A j \in 0..(k - 1) : SubSeq(s, j + 1, j + Len(sep)) # sep

\* String.prototype.split with a non-empty separator
RECURSIVE split(_, _)
split(s, sep) ==
    IF ~includes(s, sep) THEN <<s>>
    ELSE LET k == indexOf(s, sep)
         IN  <<SubSeq(s, 1, k)>> \o split(SubSeq(s, k + Len(sep) + 1, Len(s)), sep)

\* Array.prototype.join
RECURSIVE join(_, _)
join(parts, sep) ==
    IF parts = <<>> THEN <<>>
    ELSE IF Len(parts) = 1 THEN parts[1]
    ELSE parts[1] \o sep \o join(Tail(parts), sep)

\* Array.prototype.filter(term => term.length > 0)
RECURSIVE filterNonEmpty(_)
filterNonEmpty(parts) ==
    IF parts = <<>> THEN <<>>
    ELSE IF Len(Head(parts)) > 0 THEN <<Head(parts)>> \o filterNonEmpty(Tail(parts))
    ELSE filterNonEmpty(Tail(parts))

Comma == <<",">>
CommaSpace == <<",", " ">>
ColonSpace == <<":", " ">>
Slash == <<"/">>
Attached == <<"a", "t", "t", "a", "c", "h", "e", "d">>
SelfMarker == <<"[", "S", "e", "l", "f", "]">>

----------------------------------------------------------------------------
(* removeDuplicateTerms *)

\* the seen set keyed by the term itself instead of its lower-case form
RECURSIVE uniqueTermsLoopCaseSensitive(_, _, _)
uniqueTermsLoopCaseSensitive(terms, seen, uniqueTerms) ==
    IF terms = <<>> THEN uniqueTerms
    ELSE LET term == Head(terms)
         IN  IF term \notin seen
             THEN uniqueTermsLoopCaseSensitive(Tail(terms), seen \cup {term},
                                               Append(uniqueTerms, term))
             ELSE uniqueTermsLoopCaseSensitive(Tail(terms), seen, uniqueTerms)

\* the for loop over terms with the seen set and the uniqueTerms array
RECURSIVE uniqueTermsLoop(_, _, _)
uniqueTermsLoop(terms, seen, uniqueTerms) ==
    IF terms = <<>> THEN uniqueTerms
    ELSE LET term == Head(terms)
             lowerTerm == toLowerCase(term)
         IN  IF lowerTerm \notin seen
             THEN uniqueTermsLoop(Tail(terms), seen \cup {lowerTerm}, Append(uniqueTerms, term))
             ELSE uniqueTermsLoop(Tail(terms), seen, uniqueTerms)

splitTerms(text) ==
    LET raw == split(text, Comma)
    IN  filterNonEmpty([k \in 1..Len(raw) |-> trim(raw[k])])

removeDuplicateTerms(text) ==
    IF text = <<>> \/ trim(text) = <<>> THEN text
    ELSE join(uniqueTermsLoop(splitTerms(text), {}, <<>>), CommaSpace)

----------------------------------------------------------------------------
(* resolveSubpromptRecursively: shared pieces *)

\* the separator forgotten when text is appended to a non-empty accumulator
appendTextNoSeparator(resolved, text) ==
    IF text # <<>> /\ trim(text) # <<>>
    THEN IF resolved # <<>> THEN resolved \o trim(text) ELSE trim(text)
    ELSE resolved

\* "if (x && x.trim()) { if (resolved) resolved += ', ' + x.trim(); else resolved = x.trim(); }"
appendText(resolved, text) ==
    IF text # <<>> /\ trim(text) # <<>>
    THEN IF resolved # <<>> THEN resolved \o CommaSpace \o trim(text) ELSE trim(text)
    ELSE resolved

\* Array.prototype.find over the snapshot: index of the first match, 0 when none
findFirst(all, name, folderPath) ==
    IF \E k \in 1..Len(all) : all[k].name = name /\ all[k].folder_path = folderPath
    THEN CHOOSE k \in 1..Len(all) :
            /\ all[k].name = name /\ all[k].folder_path = folderPath
            /\ \A j \in 1..(k - 1) : ~(all[j].name = name /\ all[j].folder_path = folderPath)
    ELSE 0

\* the lookup of a reference token in allSubprompts (three token formats)
findNested(nestedId, all) ==
    IF includes(nestedId, ColonSpace)
    THEN LET parts == split(nestedId, ColonSpace)
         IN  findFirst(all, parts[2], parts[1])
    ELSE IF includes(nestedId, Slash)
    THEN LET parts == split(nestedId, Slash)
         IN  findFirst(all, parts[Len(parts)], join(SubSeq(parts, 1, Len(parts) - 1), Slash))
    ELSE findFirst(all, nestedId, <<>>)

\* "if (visited.has(nestedId))"
isCircular(visited, nestedId) == nestedId \in visited

\* the visited set handed on without the reference just followed
branchVisitedWithoutToken(visited, nestedId) == visited

\* "const branchVisited = new Set(visited); branchVisited.add(nestedId);"
branchVisited(visited, nestedId) == visited \cup {nestedId}

----------------------------------------------------------------------------
(* resolveSubpromptRecursively as a recursive operator (the function is     *)
(* synchronous: its callers see only the returned pair)                    *)

RECURSIVE resolveSubpromptRecursively(_, _, _)
RECURSIVE resolveOrderLoop(_, _, _, _, _, _)

resolveOrderLoop(subprompt, visited, all, i, resolvedPositive, resolvedNegative) ==
    IF i > Len(subprompt.order)
    THEN [positive |-> resolvedPositive, negative |-> resolvedNegative]
    ELSE LET nestedId == subprompt.order[i]
         IN  IF nestedId = Attached
             THEN resolveOrderLoop(subprompt, visited, all, i + 1,
                                   appendText(resolvedPositive, subprompt.positive),
                                   appendText(resolvedNegative, subprompt.negative))
             ELSE IF isCircular(visited, nestedId)
             THEN resolveOrderLoop(subprompt, visited, all, i + 1,
                                   resolvedPositive, resolvedNegative)
             ELSE LET k == findNested(nestedId, all)
                  IN  IF k # 0
                      THEN LET resolvedNested ==
                                   resolveSubpromptRecursively(all[k],
                                       branchVisited(visited, nestedId), all)
                           IN  resolveOrderLoop(subprompt, visited, all, i + 1,
                                   appendText(resolvedPositive, resolvedNested.positive),
                                   appendText(resolvedNegative, resolvedNested.negative))
                      ELSE resolveOrderLoop(subprompt, visited, all, i + 1,
                                   resolvedPositive, resolvedNegative)

resolveSubpromptRecursively(subprompt, visited, all) ==
    resolveOrderLoop(subprompt, visited, all, 1, <<>>, <<>>)

\* the tail of resolveNestedSubprompts / resolveNestedSubpromptsWithOrder
finalResult(resolved) ==
    [positive |-> removeDuplicateTerms(resolved.positive),
     negative |-> removeDuplicateTerms(resolved.negative)]

----------------------------------------------------------------------------
(* Inputs of the resolution engine *)

MaxOrderLen == 2

\* reference tokens as the add dialog and older versions wrote them
TokB == <<"b">>
TokC == <<"c">>
TokD == <<"d">>
TokFD == <<"f", ":", " ", "d">>
TokLegacyFD == <<"f", "/", "d">>

SnapshotRefTokens == {TokB, TokC, TokFD}
RootTokens == {Attached, TokB, TokC, TokD, TokFD}

\* orders of the stored subprompts, with at most one reference each:
\* b refers to any stored subprompt, before its own text or without it;
\* c refers to d in the legacy format, to b or to itself; d to b or to itself
SnapshotOrders(k) ==
    CASE k = 1 -> {<<Attached>>}
                    \cup {<<t, Attached>> : t \in SnapshotRefTokens}
                    \cup {<<t>> : t \in SnapshotRefTokens}
      [] k = 2 -> {<<Attached>>, <<TokLegacyFD, Attached>>, <<Attached, TokB>>,
                   <<TokB, Attached>>, <<TokC, Attached>>}
      [] OTHER -> {<<Attached>>, <<Attached, TokB>>, <<TokFD, Attached>>}

\* orders of the resolved root: every token sequence up to MaxOrderLen
RootOrders == UNION {[1..n -> RootTokens] : n \in 0..MaxOrderLen}

SubNames == <<TokB, TokC, TokD>>
SubFolderPaths == <<<<>>, <<>>, <<"f">>>>
SubFolderIds == <<"", "", "F1">>
NSub == Len(SubNames)

\* two assignments of texts to the stored subprompts and to the root
TextVariants ==
    { [subs |-> <<[positive |-> <<"x", ",", " ", "y">>, negative |-> <<"n">>],
                  [positive |-> <<"z">>,                negative |-> <<>>],
                  [positive |-> <<"w", ",", "x">>,      negative |-> <<"N">>]>>,
       root |-> [positive |-> <<"x", ",", " ", "y">>, negative |-> <<"n">>]],
      [subs |-> <<[positive |-> <<" ">>,                negative |-> <<>>],
                  [positive |-> <<" ", "X", " ", ",", "y", " ">>, negative |-> <<" ">>],
                  [positive |-> <<>>,                   negative |-> <<"n", ",", "n">>]>>,
       root |-> [positive |-> <<" ", "x", ",", " ", "R">>, negative |-> <<>>]] }

Snapshot(tv, o) ==
    [k \in 1..NSub |->
        [name |-> SubNames[k], folder_path |-> SubFolderPaths[k],
         folder_id |-> SubFolderIds[k],
         positive |-> tv.subs[k].positive, negative |-> tv.subs[k].negative,
         order |-> o[k]]]

SnapshotOrderChoices ==
    {o \in [1..NSub -> UNION {SnapshotOrders(k) : k \in 1..NSub}] :
        \A k \in 1..NSub : o[k] \in SnapshotOrders(k)}

NoResult == [positive |-> <<>>, negative |-> <<>>]

----------------------------------------------------------------------------
(* resolveSubpromptRecursively as a step machine: one frame per call       *)

Top == stack[Len(stack)]
Token == Top.subprompt.order[Top.i]
AtToken == pc = "resolving" /\ stack # <<>> /\ Top.i <= Len(Top.subprompt.order)
AtEnd == pc = "resolving" /\ stack # <<>> /\ Top.i > Len(Top.subprompt.order)

\* an activation that starts from the subprompt's own text instead of ''
FramePreAdded(who, subprompt, visited) ==
    [who |-> who, subprompt |-> subprompt, visited |-> visited, i |-> 1,
     resolvedPositive |-> trim(subprompt.positive),
     resolvedNegative |-> trim(subprompt.negative)]

\* an activation of resolveSubpromptRecursively: "let resolvedPositive = ''"
Frame(who, subprompt, visited) ==
    [who |-> who, subprompt |-> subprompt, visited |-> visited, i |-> 1,
     resolvedPositive |-> <<>>, resolvedNegative |-> <<>>]

ReplaceTop(frame) == [stack EXCEPT ![Len(stack)] = frame]

\* one entry of the log: who is the index of the resolved subprompt in the
\* snapshot (0: the root), visited the set the call was given
Event(kind, who, token, visited) ==
    [kind |-> kind, who |-> who, token |-> token, visited |-> visited]

\* resolveNestedSubprompts calls resolveSubpromptRecursively(root, new Set())
Call ==
    /\ pc = "idle"
    /\ stack' = <<Frame(0, root, {})>>
    /\ pc' = "resolving"
    /\ UNCHANGED <<allSubprompts, root, log, result, final, dialogVars, treeVars>>

\* own text put in front of what has been merged so far, whatever the position
StepAttachedFirst ==
    /\ AtToken
    /\ Token = Attached
    /\ stack' = ReplaceTop([Top EXCEPT
            !.resolvedPositive = appendText(appendText(<<>>, Top.subprompt.positive), @),
            !.resolvedNegative = appendText(appendText(<<>>, Top.subprompt.negative), @),
            !.i = @ + 1])
    /\ log' = Append(log, Event("self", Top.who, Token, Top.visited))
    /\ UNCHANGED <<allSubprompts, root, result, final, pc, dialogVars, treeVars>>

\* nestedId === "attached": own text at this position
StepAttached ==
    /\ AtToken
    /\ Token = Attached
    /\ stack' = ReplaceTop([Top EXCEPT
            !.resolvedPositive = appendText(@, Top.subprompt.positive),
            !.resolvedNegative = appendText(@, Top.subprompt.negative),
            !.i = @ + 1])
    /\ log' = Append(log, Event("self", Top.who, Token, Top.visited))
    /\ UNCHANGED <<allSubprompts, root, result, final, pc, dialogVars, treeVars>>

\* visited.has(nestedId): warn and continue
StepCircular ==
    /\ AtToken
    /\ Token # Attached
    /\ isCircular(Top.visited, Token)
    /\ stack' = ReplaceTop([Top EXCEPT !.i = @ + 1])
    /\ log' = Append(log, Event("circular", Top.who, Token, Top.visited))
    /\ UNCHANGED <<allSubprompts, root, result, final, pc, dialogVars, treeVars>>

\* the loop left at the first reference that is not found
StepNotFoundBreaks ==
    /\ AtToken
    /\ Token # Attached
    /\ ~isCircular(Top.visited, Token)
    /\ findNested(Token, allSubprompts) = 0
    /\ stack' = ReplaceTop([Top EXCEPT !.i = Len(Top.subprompt.order) + 1])
    /\ log' = Append(log, Event("notfound", Top.who, Token, Top.visited))
    /\ UNCHANGED <<allSubprompts, root, result, final, pc, dialogVars, treeVars>>

\* lookup failed: warn and continue
StepNotFound ==
    /\ AtToken
    /\ Token # Attached
    /\ ~isCircular(Top.visited, Token)
    /\ findNested(Token, allSubprompts) = 0
    /\ stack' = ReplaceTop([Top EXCEPT !.i = @ + 1])
    /\ log' = Append(log, Event("notfound", Top.who, Token, Top.visited))
    /\ UNCHANGED <<allSubprompts, root, result, final, pc, dialogVars, treeVars>>

\* the reference is added to the visited set of the caller, which the callee
\* is handed as it is
StepRecurseMarksVisited ==
    /\ AtToken
    /\ Token # Attached
    /\ ~isCircular(Top.visited, Token)
    /\ LET k == findNested(Token, allSubprompts)
       IN  /\ k # 0
           /\ stack' = Append(ReplaceTop([Top EXCEPT !.visited = branchVisited(@, Token)]),
                   Frame(k, allSubprompts[k], branchVisited(Top.visited, Token)))
           /\ log' = Append(log, Event("enter", k, Token, branchVisited(Top.visited, Token)))
    /\ UNCHANGED <<allSubprompts, root, result, final, pc, dialogVars, treeVars>>

\* lookup succeeded: recursive call with branchVisited
StepRecurse ==
    /\ AtToken
    /\ Token # Attached
    /\ ~isCircular(Top.visited, Token)
    /\ LET k == findNested(Token, allSubprompts)
       IN  /\ k # 0
           /\ stack' = Append(stack,
                   Frame(k, allSubprompts[k], branchVisited(Top.visited, Token)))
           /\ log' = Append(log, Event("enter", k, Token, branchVisited(Top.visited, Token)))
    /\ UNCHANGED <<allSubprompts, root, result, final, pc, dialogVars, treeVars>>

\* one visited set shared by all calls: the caller sees what the callee added
ReturnSharedVisited ==
    /\ AtEnd
    /\ Len(stack) > 1
    /\ LET caller == stack[Len(stack) - 1]
       IN  stack' = Append(SubSeq(stack, 1, Len(stack) - 2),
                [caller EXCEPT
                    !.resolvedPositive = appendText(@, Top.resolvedPositive),
                    !.resolvedNegative = appendText(@, Top.resolvedNegative),
                    !.visited = Top.visited,
                    !.i = @ + 1])
    /\ UNCHANGED <<allSubprompts, root, log, result, final, pc, dialogVars, treeVars>>

\* a nested call returns: its text is spliced in at the caller's position
Return ==
    /\ AtEnd
    /\ Len(stack) > 1
    /\ LET caller == stack[Len(stack) - 1]
       IN  stack' = Append(SubSeq(stack, 1, Len(stack) - 2),
                [caller EXCEPT
                    !.resolvedPositive = appendText(@, Top.resolvedPositive),
                    !.resolvedNegative = appendText(@, Top.resolvedNegative),
                    !.i = @ + 1])
    /\ UNCHANGED <<allSubprompts, root, log, result, final, pc, dialogVars, treeVars>>

\* the outermost call returns {positive, negative}
ReturnRoot ==
    /\ AtEnd
    /\ Len(stack) = 1
    /\ result' = [positive |-> Top.resolvedPositive, negative |-> Top.resolvedNegative]
    /\ stack' = <<>>
    /\ pc' = "returned"
    /\ UNCHANGED <<allSubprompts, root, log, final, dialogVars, treeVars>>

\* resolveNestedSubprompts removes duplicate terms from the returned pair
Deduplicate ==
    /\ pc = "returned"
    /\ final' = finalResult(result)
    /\ pc' = "done"
    /\ UNCHANGED <<allSubprompts, root, stack, log, result, dialogVars, treeVars>>

\* PromptTreeView.draggedItem when nothing is dragged (null)
NoTreeItem == [type |-> "none", id |-> 0, name |-> <<>>, folder_id |-> 0, folderId |-> 0]

\* neither path function is running
NoWalk ==
    [fn |-> "none", pc |-> "idle", start |-> 0, current |-> 0, pathParts |-> <<>>,
     depth |-> 0, visited |-> {}, path |-> <<>>]

\* the edit dialog's flag and the tree view's selection as the constructors
\* leave them, with no click being handled
NoEditPanel ==
    [unsavedChanges |-> FALSE, selectedItems |-> {}, subprompt |-> <<>>, click |-> <<>>,
     done |-> <<>>, items |-> <<>>]

\* PromptAdditionManager as its constructor leaves it, with an empty server
NoManager ==
    [promptAdditions |-> {}, selectedAdditionName |-> <<>>, server |-> {},
     rename |-> <<>>, done |-> <<>>]

\* PromptState as its constructor leaves it, with no saveAddition made
NoPromptState ==
    [data |-> [additions |-> <<>>, groups |-> <<>>], isLoading |-> FALSE,
     issued |-> 0, calls |-> {}, returned |-> <<>>]

\* no deleteFolderAndMoveContents has been followed yet
NoPromotion == [folder |-> 0, folders |-> <<>>, subprompts |-> <<>>, clean |-> FALSE]

PreviewEmpty == [kind |-> "empty", positive |-> <<>>, negative |-> <<>>]

\* the edit dialog as its constructor leaves it, with the panel's elements empty
DialogConstructed ==
    /\ currentSubprompt = 0
    /\ form = [positive |-> <<>>, negative |-> <<>>]
    /\ nestedList = <<>>
    /\ preview = PreviewEmpty
    /\ loads = {}
    /\ issued = 0
    /\ arrivals = <<>>
    /\ pendingPreviewUpdate = "null"
    /\ frames = 0
    /\ timers = 0

\* the tree view as its constructor leaves it, before any data is loaded
TreeConstructed ==
    /\ storeFolders = <<>>
    /\ storeSubprompts = <<>>
    /\ created = 0
    /\ treeData = [folders |-> <<>>, items |-> <<>>, rootFolders |-> <<>>]
    /\ inflight = EmptyBag
    /\ draggedItem = NoTreeItem
    /\ dropTarget = NoTreeItem
    /\ promotion = NoPromotion
    /\ walk = NoWalk
    /\ promptState = NoPromptState
    /\ editPanel = NoEditPanel
    /\ manager = NoManager

InitResolve ==
    /\ \E tv \in TextVariants, o \in SnapshotOrderChoices, ro \in RootOrders :
          /\ allSubprompts = Snapshot(tv, o)
          /\ root = [positive |-> tv.root.positive, negative |-> tv.root.negative,
                     order |-> ro]
    /\ stack = <<>>
    /\ log = <<>>
    /\ result = NoResult
    /\ final = NoResult
    /\ pc = "idle"
    /\ DialogConstructed
    /\ TreeConstructed

NextResolve ==
    \/ Call
    \/ StepAttached
    \/ StepCircular
    \/ StepNotFound
    \/ StepRecurse
    \/ Return
    \/ ReturnRoot
    \/ Deduplicate

SpecResolve == InitResolve /\ [][NextResolve]_vars

----------------------------------------------------------------------------
(* Properties of the resolution engine *)

Range(f) == {f[k] : k \in DOMAIN f}

Max(S) == CHOOSE m \in S : \A n \in S : n <= m

RECURSIVE SumPowers(_, _)
\* 1 + base + base^2 + ... + base^n
SumPowers(base, n) == IF n = 0 THEN 1 ELSE 1 + base * SumPowers(base, n - 1)

\* the reference tokens that occur anywhere in the input
InputRefTokens ==
    (Range(root.order) \cup UNION {Range(allSubprompts[k].order) : k \in 1..Len(allSubprompts)})
        \ {Attached}

InputMaxOrderLen ==
    Max({Len(root.order)} \cup {Len(allSubprompts[k].order) : k \in 1..Len(allSubprompts)})

\* every call logs at most one entry per token, and a path of calls holds at most
\* one call per distinct reference token below the root
LogBound ==
    InputMaxOrderLen * SumPowers(InputMaxOrderLen, Cardinality(InputRefTokens))

EventsOf(kind) == {k \in 1..Len(log) : log[k].kind = kind}

IsText(t) == DOMAIN t = 1..Len(t)

\* C1: from every input (self-references, cycles, repeated and dangling tokens
\* included) resolveSubpromptRecursively started with an empty visited set
\* terminates and returns a {positive, negative} pair: the call stack never holds
\* more frames than one per distinct reference token plus the root, each nested
\* frame's visited set strictly extends its caller's, the number of processed
\* tokens stays below a bound computed from the input, every frame is at a token
\* of its order or at its end with the lookup answering inside the snapshot, and
\* what is returned is a pair of texts.
C1_ResolveTerminates ==
    /\ Len(stack) <= Cardinality(InputRefTokens) + 1
    /\ \A d \in 1..Len(stack) :
          /\ Cardinality(stack[d].visited) = d - 1
          /\ stack[d].visited \subseteq InputRefTokens
          /\ d > 1 => stack[d - 1].visited \subseteq stack[d].visited
    /\ Len(log) <= LogBound
    /\ pc \in {"idle", "resolving", "returned", "done"}
    /\ pc = "resolving" => stack # <<>>
    /\ pc = "resolving" /\ stack # <<>> =>
          /\ Top.i \in 1..(Len(Top.subprompt.order) + 1)
          /\ AtToken /\ Token # Attached /\ ~isCircular(Top.visited, Token) =>
                findNested(Token, allSubprompts) \in 0..Len(allSubprompts)
    /\ pc \in {"returned", "done"} =>
          /\ stack = <<>>
          /\ DOMAIN result = {"positive", "negative"}
          /\ IsText(result.positive) /\ IsText(result.negative)

\* a finished resolution of an input with a reference cycle and a dangling token
C1_Witness ==
    /\ pc = "done"
    /\ EventsOf("circular") # {}
    /\ EventsOf("notfound") # {}

\* what the claims call a token's contribution, computed from the description
\* and not by accumulation: the ", "-join of the non-empty contributions
RECURSIVE Described(_, _, _)
Described(subprompt, visited, all) ==
    LET contribution(token) ==
            IF token = Attached
            THEN [positive |-> trim(subprompt.positive), negative |-> trim(subprompt.negative)]
            ELSE IF token \in visited \/ findNested(token, all) = 0
            THEN NoResult
            ELSE Described(all[findNested(token, all)], visited \cup {token}, all)
        parts == [k \in 1..Len(subprompt.order) |-> contribution(subprompt.order[k])]
    IN  [positive |-> join(filterNonEmpty([k \in 1..Len(parts) |-> parts[k].positive]), CommaSpace),
         negative |-> join(filterNonEmpty([k \in 1..Len(parts) |-> parts[k].negative]), CommaSpace)]

\* the same description without the exclusion of references already on the path:
\* every found reference contributes the referenced subprompt's resolved text
DescribedAnyFound(subprompt, visited, all) ==
    LET contribution(token) ==
            IF token = Attached
            THEN [positive |-> trim(subprompt.positive), negative |-> trim(subprompt.negative)]
            ELSE IF findNested(token, all) = 0
            THEN NoResult
            ELSE resolveSubpromptRecursively(all[findNested(token, all)],
                                             visited \cup {token}, all)
        parts == [k \in 1..Len(subprompt.order) |-> contribution(subprompt.order[k])]
    IN  [positive |-> join(filterNonEmpty([k \in 1..Len(parts) |-> parts[k].positive]), CommaSpace),
         negative |-> join(filterNonEmpty([k \in 1..Len(parts) |-> parts[k].negative]), CommaSpace)]

Accumulated(frame) ==
    [positive |-> frame.resolvedPositive, negative |-> frame.resolvedNegative]

\* C2 (as amended): when a call of resolveSubpromptRecursively reaches the end of
\* its order, its positive and its negative text are each the ", "-join, in order
\* sequence, of the non-empty contributions, where the self-marker contributes the
\* subprompt's own trimmed text, a found reference that is not yet on the current
\* path contributes that subprompt's text resolved with the path extended by the
\* reference, and a reference already on the path or not found contributes nothing.
C2_JoinOfContributions ==
    /\ AtEnd => Accumulated(Top) = Described(Top.subprompt, Top.visited, allSubprompts)
    /\ pc \in {"returned", "done"} => result = Described(root, {}, allSubprompts)

\* order [ref(b), self] resolved: b's text "x, y" precedes the root's own "x, y"
C2_Witness ==
    /\ pc = "done"
    /\ root.order = <<TokB, Attached>>
    /\ allSubprompts[1].order = <<TokC, Attached>>
    /\ allSubprompts[2].order = <<Attached>>
    /\ result.positive = <<"z", ",", " ", "x", ",", " ", "y", ",", " ", "x", ",", " ", "y">>
    /\ result.negative = <<"n", ",", " ", "n">>

\* C2 as stated: every found reference contributes the referenced subprompt's
\* recursively resolved text, also when the reference is already on the path.
C2_Original ==
    AtEnd => Accumulated(Top) = DescribedAnyFound(Top.subprompt, Top.visited, allSubprompts)

----------------------------------------------------------------------------
(* removeDuplicateTerms on arbitrary merged text *)

MaxTextLen == 4

DedupAlphabet == {"a", "A", "b", ",", " "}

\* "dog, golden retriever, dog, long fur"
DocExample ==
    <<"d", "o", "g", ",", " ", "g", "o", "l", "d", "e", "n", " ", "r", "e", "t", "r",
      "i", "e", "v", "e", "r", ",", " ", "d", "o", "g", ",", " ", "l", "o", "n", "g",
      " ", "f", "u", "r">>

\* "dog, golden retriever, long fur"
DocExampleReduced ==
    <<"d", "o", "g", ",", " ", "g", "o", "l", "d", "e", "n", " ", "r", "e", "t", "r",
      "i", "e", "v", "e", "r", ",", " ", "l", "o", "n", "g", " ", "f", "u", "r">>

\* the texts resolveSubpromptRecursively can return: empty, or beginning and
\* ending with a non-blank character (every merged piece is trimmed and non-empty)
DedupTexts ==
    {t \in UNION {[1..n -> DedupAlphabet] : n \in 0..MaxTextLen} : trim(t) = t}
        \cup {DocExample}

\* resolveNestedSubprompts at the point where resolveSubpromptRecursively has
\* returned some pair of merged texts
InitDedup ==
    /\ allSubprompts = <<>>
    /\ root = [positive |-> <<>>, negative |-> <<>>, order |-> <<>>]
    /\ stack = <<>>
    /\ log = <<>>
    /\ result \in [positive : DedupTexts, negative : {<<>>, <<"N", ",", "n">>}]
    /\ final = NoResult
    /\ pc = "returned"
    /\ DialogConstructed
    /\ TreeConstructed

NextDedup == Deduplicate

SpecDedup == InitDedup /\ [][NextDedup]_vars

\* the terms of a text: the comma-separated pieces, trimmed, the empty ones dropped
TermsOf(text) ==
    LET pieces == split(text, Comma)
    IN  filterNonEmpty([k \in 1..Len(pieces) |-> trim(pieces[k])])

\* the terms that are the first occurrence of themselves up to letter case
RECURSIVE FirstOccurrences(_, _)
FirstOccurrences(terms, k) ==
    IF k > Len(terms) THEN <<>>
    ELSE IF \A j \in 1..(k - 1) : toLowerCase(terms[j]) # toLowerCase(terms[k])
         THEN <<terms[k]>> \o FirstOccurrences(terms, k + 1)
         ELSE FirstOccurrences(terms, k + 1)

DescribedDedup(text) == join(FirstOccurrences(TermsOf(text), 1), CommaSpace)

\* C3: the final text is removeDuplicateTerms of the complete merged text, which
\* is the first occurrences (case-insensitively, in first-seen casing and in the
\* original order) of its trimmed non-empty comma-separated terms, joined with
\* ", "; "dog, golden retriever, dog, long fur" becomes
\* "dog, golden retriever, long fur".
C3_DedupFirstOccurrences ==
    pc = "done" =>
        /\ final.positive = DescribedDedup(result.positive)
        /\ final.negative = DescribedDedup(result.negative)

\* the documented example, with a case-insensitive duplicate in the negative text
C3_Witness ==
    /\ pc = "done"
    /\ result.positive = DocExample
    /\ final.positive = DocExampleReduced
    /\ result.negative = <<"N", ",", "n">>
    /\ final.negative = <<"N">>

----------------------------------------------------------------------------
(* Cycles, diamonds and dangling references *)

\* the stored subprompts a stored subprompt or the root refers to
RefsOfOrder(order) ==
    {findNested(t, allSubprompts) : t \in Range(order) \ {Attached}} \ {0}

RECURSIVE ReachableIn(_, _)
\* the stored subprompts reachable from the set S in at most n reference steps
ReachableIn(S, n) ==
    IF n = 0 THEN S
    ELSE ReachableIn(S \cup UNION {RefsOfOrder(allSubprompts[k].order) : k \in S}, n - 1)

ReachableFrom(k) == ReachableIn(RefsOfOrder(allSubprompts[k].order), Len(allSubprompts))

Acyclic == \A k \in 1..Len(allSubprompts) : k \notin ReachableFrom(k)

\* the root is the edit form of stored subprompt a, unchanged since it was loaded
RootIsFormOf(a) ==
    /\ root.order = allSubprompts[a].order
    /\ trim(root.positive) = trim(allSubprompts[a].positive)
    /\ trim(root.negative) = trim(allSubprompts[a].negative)

\* A's order references B and B's order references A, both with the self-marker
MutualCycle(a, b) ==
    /\ a # b
    /\ RootIsFormOf(a)
    /\ Attached \in Range(root.order)
    /\ Attached \in Range(allSubprompts[b].order)
    /\ b \in RefsOfOrder(root.order)
    /\ a \in RefsOfOrder(allSubprompts[b].order)

SelfMergesOf(who) == {k \in EventsOf("self") : log[k].who \in who}
EntriesOf(k) == {e \in EventsOf("enter") : log[e].who = k}

\* C4: when A and B reference each other, resolving A terminates, merges each
\* node's own attached text at most once (A is not entered a second time through
\* B) and emits at least one circular-reference warning.
C4_MutualCycleOnce ==
    \A a, b \in 1..Len(allSubprompts) :
        pc = "done" /\ MutualCycle(a, b) =>
            /\ Cardinality(SelfMergesOf({0, a})) <= 1
            /\ EntriesOf(a) = {}
            /\ Cardinality(SelfMergesOf({b})) <= 1
            /\ EventsOf("circular") # {}

\* the positions of the root order whose token finds stored subprompt k
PositionsFinding(k) ==
    {p \in 1..Len(root.order) :
        root.order[p] # Attached /\ findNested(root.order[p], allSubprompts) = k}

\* the root references b and c, which both reference d
Diamond(b, c, d) ==
    /\ b # c /\ d \notin {b, c}
    /\ PositionsFinding(b) # {} /\ PositionsFinding(c) # {}
    /\ d \in RefsOfOrder(allSubprompts[b].order)
    /\ d \in RefsOfOrder(allSubprompts[c].order)
    /\ Acyclic

\* how often a term occurs, up to letter case, among the terms of a text
Occurrences(term, text) ==
    Cardinality({k \in 1..Len(TermsOf(text)) :
                    toLowerCase(TermsOf(text)[k]) = toLowerCase(term)})

\* C5: in an acyclic diamond (the root references b and c, both reference d) no
\* circular-reference warning is emitted, d is entered once along each path with
\* a visited set that holds that path's tokens only, and after deduplication each
\* term of d's own text occurs exactly once in the final text.
C5_DiamondResolvesBothPaths ==
    \A b, c, d \in 1..Len(allSubprompts) :
        pc = "done" /\ Diamond(b, c, d) =>
            /\ EventsOf("circular") = {}
            /\ \E e1, e2 \in EntriesOf(d) :
                  /\ e1 # e2
                  /\ \A p \in PositionsFinding(c) : root.order[p] \notin log[e1].visited
                  /\ \A p \in PositionsFinding(b) : root.order[p] \notin log[e2].visited
            /\ Attached \in Range(allSubprompts[d].order) =>
                  /\ \A k \in 1..Len(TermsOf(allSubprompts[d].positive)) :
                        Occurrences(TermsOf(allSubprompts[d].positive)[k], final.positive) = 1
                  /\ \A k \in 1..Len(TermsOf(allSubprompts[d].negative)) :
                        Occurrences(TermsOf(allSubprompts[d].negative)[k], final.negative) = 1

\* the root is [b, c], b and c both include "f: d", whose text shares "x" with b
C5_Witness ==
    /\ pc = "done"
    /\ root.order = <<TokB, TokC>>
    /\ Diamond(1, 2, 3)
    /\ Cardinality(EntriesOf(3)) = 2
    /\ allSubprompts[3].positive = <<"w", ",", "x">>
    /\ final.positive = <<"w", ",", " ", "x", ",", " ", "y", ",", " ", "z">>

\* the order without its p-th token
WithoutPosition(order, p) == SubSeq(order, 1, p - 1) \o SubSeq(order, p + 1, Len(order))

\* the positions of the root order that hold a reference naming no stored subprompt
DanglingPositions ==
    {p \in 1..Len(root.order) :
        root.order[p] # Attached /\ findNested(root.order[p], allSubprompts) = 0}

\* C6: a reference token that names no subprompt of the snapshot is skipped: one
\* not-found warning is emitted for each such token, the tokens after it are
\* still processed, and the returned text is the text resolved from the same
\* order with that token removed.
C6_DanglingSkipped ==
    pc \in {"returned", "done"} =>
        /\ Cardinality({e \in EventsOf("notfound") : log[e].who = 0})
              = Cardinality(DanglingPositions)
        /\ \A p \in DanglingPositions :
              /\ \E e \in EventsOf("notfound") :
                    log[e].who = 0 /\ log[e].token = root.order[p]
              /\ result = resolveSubpromptRecursively(
                              [root EXCEPT !.order = WithoutPosition(root.order, p)],
                              {}, allSubprompts)

\* the root is ["d", "attached"]: "d" lives in folder f, so the bare name dangles
C6_Witness ==
    /\ pc = "done"
    /\ root.order = <<TokD, Attached>>
    /\ DanglingPositions = {1}
    /\ EventsOf("notfound") # {}
    /\ result.positive = <<"x", ",", " ", "y">>

\* a placement of the stored subprompts in folders
FolderPlacements ==
    [1..NSub -> {[folder_path |-> <<>>, folder_id |-> ""],
                 [folder_path |-> <<"f">>, folder_id |-> "F1"]}]

Placed(all, placement) ==
    [k \in 1..Len(all) |->
        [all[k] EXCEPT !.folder_path = placement[k].folder_path,
                       !.folder_id = placement[k].folder_id]]

\* C8: folders never affect resolution: with the stored subprompts placed in
\* other folders and everything else equal, the same root resolves to the same
\* positive and negative text.
C8_FoldersDoNotAffectResolution ==
    pc = "done" =>
        \A placement \in FolderPlacements :
            finalResult(resolveSubpromptRecursively(root, {},
                            Placed(allSubprompts, placement))) = final

----------------------------------------------------------------------------
(* The edit dialog: loadSubpromptForEditing, clearForm, loadNestedSubprompts, *)
(* updatePreview and schedulePreviewUpdate.  The only suspension points are   *)
(* the fetch of loadNestedSubprompts and the animation frames and timer of    *)
(* schedulePreviewUpdate; everything between two of them runs as one step.    *)

MaxLoads == 3
MaxPreviewJobs == 2

\* the subprompts the server holds and the tree view offers for editing:
\* b = [c, attached], c = [attached, "f: d"], d = [attached] in folder f
DialogStore ==
    Snapshot([subs |-> <<[positive |-> <<"x">>, negative |-> <<"n">>],
                         [positive |-> <<"z">>, negative |-> <<>>],
                         [positive |-> <<"w">>, negative |-> <<"N">>]>>],
             <<<<TokC, Attached>>, <<Attached, TokFD>>, <<Attached>>>>)

\* the subprompts without folder_id: loadSubpromptForEditing does not await
\* calculateFolderPath for them
DialogSelectable == {k \in 1..Len(DialogStore) : DialogStore[k].folder_id = ""}

\* outcomes of api.fetchApi('/prompt_companion/subprompts') in loadNestedSubprompts
FetchOutcomes == {"ok", "notOk", "throws"}

RECURSIVE convertOrderLoop(_, _)
convertOrderLoop(order, k) ==
    IF k > Len(order) THEN <<>>
    ELSE IF order[k] = Attached THEN <<SelfMarker>> \o convertOrderLoop(order, k + 1)
    ELSE IF order[k] # <<>> /\ trim(order[k]) # <<>>
         THEN <<trim(order[k])>> \o convertOrderLoop(order, k + 1)
         ELSE convertOrderLoop(order, k + 1)

ensureSelf(list) ==
    IF \E k \in 1..Len(list) : list[k] = SelfMarker THEN list ELSE <<SelfMarker>> \o list

convertOrderToNested(order) == ensureSelf(convertOrderLoop(order, 1))

convertNestedToOrder(nested) ==
    [k \in 1..Len(nested) |-> IF nested[k] = SelfMarker THEN Attached ELSE nested[k]]

\* resolveNestedSubprompts / resolveNestedSubpromptsWithOrder on the form,
\* the DOM list and the snapshot as they are when it runs
resolveNestedSubprompts(f, nested, all) ==
    finalResult(resolveSubpromptRecursively(
        [positive |-> trim(f.positive), negative |-> trim(f.negative),
         order |-> convertNestedToOrder(nested)], {}, all))

\* the previewHtml that updatePreview builds from the resolved content
previewHtml(resolvedContent) ==
    LET p == IF resolvedContent.positive # <<>> /\ trim(resolvedContent.positive) # <<>>
             THEN resolvedContent.positive ELSE <<>>
        n == IF resolvedContent.negative # <<>> /\ trim(resolvedContent.negative) # <<>>
             THEN resolvedContent.negative ELSE <<>>
    IN  [kind |-> IF p = <<>> /\ n = <<>> THEN "empty" ELSE "content",
         positive |-> p, negative |-> n]

PreviewUpdating == [kind |-> "updating", positive |-> <<>>, negative |-> <<>>]

updatePreview(f, nested, all) == previewHtml(resolveNestedSubprompts(f, nested, all))

\* a call of loadNestedSubprompts(nestedList) that reached its fetch
LoadCall(id, list) == [id |-> id, nestedList |-> list]

\* loadSubpromptForEditing(subprompt) for a subprompt without folder_id: the
\* form is filled, loadNestedSubprompts runs up to its fetch, and updatePreview
\* renders from the list that is still in the DOM
loadSubpromptForEditing(k) ==
    /\ k \in DialogSelectable
    /\ issued < MaxLoads
    /\ currentSubprompt' = k
    /\ form' = [positive |-> DialogStore[k].positive, negative |-> DialogStore[k].negative]
    /\ issued' = issued + 1
    /\ loads' = loads \cup {LoadCall(issued + 1, convertOrderToNested(DialogStore[k].order))}
    /\ preview' = updatePreview(form', nestedList, allSubprompts)
    /\ UNCHANGED <<nestedList, arrivals, pendingPreviewUpdate, frames, timers, allSubprompts>>
    /\ UNCHANGED <<root, stack, log, result, final, pc, treeVars>>

\* clearForm(): as above with empty fields and loadNestedSubprompts([])
clearForm ==
    /\ issued < MaxLoads
    /\ currentSubprompt' = 0
    /\ form' = [positive |-> <<>>, negative |-> <<>>]
    /\ issued' = issued + 1
    /\ loads' = loads \cup {LoadCall(issued + 1, <<>>)}
    /\ preview' = updatePreview(form', nestedList, allSubprompts)
    /\ UNCHANGED <<nestedList, arrivals, pendingPreviewUpdate, frames, timers, allSubprompts>>
    /\ UNCHANGED <<root, stack, log, result, final, pc, treeVars>>

\* what a call of loadNestedSubprompts leaves in allSubprompts after its fetch
snapshotAfterFetch(outcome, all) ==
    CASE outcome = "ok" -> DialogStore
      [] outcome = "notOk" -> all
      [] OTHER -> <<>>

\* loadNestedSubprompts after its fetch returns: the snapshot is stored, the
\* container is rebuilt from the list the call was given, the preview is redrawn
loadNestedSubprompts(call, outcome) ==
    /\ call \in loads
    /\ outcome \in FetchOutcomes
    /\ allSubprompts' = snapshotAfterFetch(outcome, allSubprompts)
    /\ nestedList' = ensureSelf(call.nestedList)
    /\ preview' = updatePreview(form, nestedList', allSubprompts')
    /\ loads' = loads \ {call}
    /\ arrivals' = Append(arrivals, call.id)
    /\ UNCHANGED <<currentSubprompt, form, issued, pendingPreviewUpdate, frames, timers>>
    /\ UNCHANGED <<root, stack, log, result, final, pc, treeVars>>

LoadReturns == \E call \in loads, outcome \in FetchOutcomes : loadNestedSubprompts(call, outcome)

\* removeNestedSubpromptItemByElement followed by schedulePreviewUpdate('remove'):
\* the pending first frame is cancelled, a new one requested
removeNestedSubpromptItemByElement(p) ==
    /\ p \in 1..Len(nestedList)
    /\ nestedList[p] # SelfMarker
    /\ frames + timers < MaxPreviewJobs + (IF pendingPreviewUpdate = "waiting" THEN 1 ELSE 0)
    /\ nestedList' = SubSeq(nestedList, 1, p - 1) \o SubSeq(nestedList, p + 1, Len(nestedList))
    /\ frames' = (IF pendingPreviewUpdate = "waiting" THEN frames - 1 ELSE frames) + 1
    /\ pendingPreviewUpdate' = "waiting"
    /\ preview' = PreviewUpdating
    /\ IF Len(nestedList') = 0
       THEN /\ issued < MaxLoads
            /\ issued' = issued + 1
            /\ loads' = loads \cup {LoadCall(issued + 1, <<>>)}
       ELSE UNCHANGED <<issued, loads>>
    /\ UNCHANGED <<currentSubprompt, form, arrivals, timers, allSubprompts>>
    /\ UNCHANGED <<root, stack, log, result, final, pc, treeVars>>

RemoveItem == \E p \in 1..Len(nestedList) : removeNestedSubpromptItemByElement(p)

\* an animation frame: every requested first-frame callback runs and requests
\* the following frames, which cancelAnimationFrame no longer reaches
AnimationFrame ==
    /\ frames > 0
    /\ timers' = timers + frames
    /\ frames' = 0
    /\ pendingPreviewUpdate' = IF pendingPreviewUpdate = "waiting" THEN "fired"
                               ELSE pendingPreviewUpdate
    /\ UNCHANGED <<currentSubprompt, form, nestedList, preview, loads, issued, arrivals,
                   allSubprompts>>
    /\ UNCHANGED <<root, stack, log, result, final, pc, treeVars>>

\* the innermost callback of schedulePreviewUpdate after its 10 ms timer: it
\* reads the DOM list and the form as they are now
PreviewTimer ==
    /\ timers > 0
    /\ timers' = timers - 1
    /\ preview' = updatePreview(form, nestedList, allSubprompts)
    /\ pendingPreviewUpdate' = "null"
    /\ UNCHANGED <<currentSubprompt, form, nestedList, loads, issued, arrivals, frames,
                   allSubprompts>>
    /\ UNCHANGED <<root, stack, log, result, final, pc, treeVars>>

\* show(): the dialog's elements exist and are empty
InitDialog ==
    /\ allSubprompts = <<>>
    /\ root = [positive |-> <<>>, negative |-> <<>>, order |-> <<>>]
    /\ stack = <<>>
    /\ log = <<>>
    /\ result = NoResult
    /\ final = NoResult
    /\ pc = "idle"
    /\ DialogConstructed
    /\ TreeConstructed

NextDialog ==
    \/ \E k \in DialogSelectable : loadSubpromptForEditing(k)
    \/ clearForm
    \/ LoadReturns
    \/ RemoveItem
    \/ AnimationFrame
    \/ PreviewTimer

SpecDialog == InitDialog /\ [][NextDialog]_vars

\* C7: when the fetch of a loadNestedSubprompts call returns after the fetch of
\* a call issued later has returned, the step that handles it leaves the nested
\* list, the allSubprompts snapshot and the preview as the later call left them.
C7_LastWriterWins ==
    [][ (/\ arrivals' # arrivals
         /\ \E k \in 1..Len(arrivals) : arrivals[k] > arrivals'[Len(arrivals')])
        => (/\ nestedList' = nestedList
            /\ allSubprompts' = allSubprompts
            /\ preview' = preview) ]_vars

----------------------------------------------------------------------------
(* The tree view (PromptTreeView) and the folders of the store.  Every       *)
(* operation of the tree view builds its requests from the folder or item    *)
(* object it was given, that is from treeData as it was when the operation   *)
(* started; the requests of the operations in flight reach the server one at *)
(* a time, in any interleaving.                                              *)

MaxFolders == 2
MaxInFlight == 2

\* the names typed into showInputDialog, as typed: for a new folder and for
\* a renamed one
NewFolderNames == {<<"p">>}
RenamedFolderNames == {<<"q", " ">>}

\* the stores the tree is first loaded from, both with an acyclic parent
\* graph: one root-level folder, and a chain of three folders.  Subprompts are
\* outside the folders' parent graph and the stores hold none.
InitialStores ==
    { [folders |-> <<[name |-> <<"p">>, parent_id |-> 0]>>, subprompts |-> <<>>],
      [folders |-> <<[name |-> <<"p">>, parent_id |-> 0],
                     [name |-> <<"p">>, parent_id |-> 1],
                     [name |-> <<"q">>, parent_id |-> 2]>>,
       subprompts |-> <<>>] }

RECURSIVE SeqOf(_)
\* the elements of a set of ids in ascending order: the order in which the
\* fetched arrays are taken to list their records
SeqOf(S) ==
    IF S = {} THEN <<>>
    ELSE LET m == CHOOSE x \in S : \A y \in S : x <= y
         IN  <<m>> \o SeqOf(S \ {m})

\* the key of the virtual root folder in organized.folders.  A missing
\* parent_id or folder_id (null) is written 0 too: the code tests either for
\* falsiness before it looks anything up under it.
rootFolderId == 0

RootName == <<"R", "o", "o", "t">>

\* organizeTreeData, first pass: one folderData per fetched folder, and the
\* virtual root folder
folderData(folderObj) ==
    [name |-> folderObj.name, parent_id |-> folderObj.parent_id,
     children |-> <<>>, subfolders |-> <<>>]

virtualRoot ==
    [name |-> RootName, parent_id |-> 0, children |-> <<>>, subfolders |-> <<>>]

firstPass(foldersData) ==
    [g \in DOMAIN foldersData \cup {rootFolderId} |->
        IF g \in DOMAIN foldersData THEN folderData(foldersData[g]) ELSE virtualRoot]

\* second pass: the folder a subprompt without a legacy folder_path is put in
subpromptFolderId(folders, subprompt) ==
    IF subprompt.folder_id # 0 /\ subprompt.folder_id \in DOMAIN folders
    THEN subprompt.folder_id
    ELSE rootFolderId

RECURSIVE secondPass(_, _, _)
secondPass(folders, subprompts, ids) ==
    IF ids = <<>> THEN folders
    ELSE LET t == subpromptFolderId(folders, subprompts[Head(ids)])
         IN  secondPass([folders EXCEPT ![t].children = Append(@, Head(ids))],
                        subprompts, Tail(ids))

organizedItems(folders, subprompts) ==
    [s \in DOMAIN subprompts |->
        [name |-> subprompts[s].name, folder_id |-> subprompts[s].folder_id,
         folderId |-> subpromptFolderId(folders, subprompts[s])]]

\* a variant of the third pass that leaves out the folders whose parent is
\* missing
RECURSIVE thirdPassDropsOrphans(_, _)
thirdPassDropsOrphans(organized, ids) ==
    IF ids = <<>> THEN organized
    ELSE LET g == Head(ids)
             folder == organized.folders[g]
             next ==
                 IF folder.parent_id = 0 \/ g = rootFolderId
                 THEN IF g # rootFolderId
                      THEN [organized EXCEPT !.rootFolders = Append(@, g)]
                      ELSE organized
                 ELSE IF folder.parent_id \in DOMAIN organized.folders
                      THEN [organized EXCEPT
                               !.folders[folder.parent_id].subfolders = Append(@, g)]
                      ELSE organized
         IN  thirdPassDropsOrphans(next, Tail(ids))

\* third pass: every folder but the virtual root goes to the subfolders of its
\* parent, or to rootFolders when it has no parent or the parent is missing
RECURSIVE thirdPass(_, _)
thirdPass(organized, ids) ==
    IF ids = <<>> THEN organized
    ELSE LET g == Head(ids)
             folder == organized.folders[g]
             next ==
                 IF folder.parent_id = 0 \/ g = rootFolderId
                 THEN IF g # rootFolderId
                      THEN [organized EXCEPT !.rootFolders = Append(@, g)]
                      ELSE organized
                 ELSE IF folder.parent_id \in DOMAIN organized.folders
                      THEN [organized EXCEPT
                               !.folders[folder.parent_id].subfolders = Append(@, g)]
                      ELSE [organized EXCEPT !.rootFolders = Append(@, g)]
         IN  thirdPass(next, Tail(ids))

\* organizeTreeData(subprompts, foldersData); the collections are given by id
organizeTreeData(subprompts, foldersData) ==
    LET first == firstPass(foldersData)
        second == secondPass(first, subprompts, SeqOf(DOMAIN subprompts))
        third == thirdPass([folders |-> second, rootFolders |-> <<>>],
                           SeqOf(DOMAIN foldersData) \o <<rootFolderId>>)
    IN  [folders |-> third.folders,
         items |-> organizedItems(first, subprompts),
         rootFolders |-> third.rootFolders]

\* item.folderId: the folder a subprompt is shown in
folderId(td, s) == td.items[s].folderId

\* the members of folder.children and folder.subfolders
children(td, f) == {td.folders[f].children[k] : k \in DOMAIN td.folders[f].children}
subfolders(td, f) == {td.folders[f].subfolders[k] : k \in DOMAIN td.folders[f].subfolders}

\* the folders of the tree that are not the virtual root
FolderIds(td) == DOMAIN td.folders \ {rootFolderId}

folderHasContents(td, f) == subfolders(td, f) # {} \/ children(td, f) # {}

\* the item objects the rendered tree hands to its event handlers
FolderItem(td, f) ==
    [type |-> "folder", id |-> f, name |-> <<>>, folder_id |-> 0, folderId |-> 0]

SubpromptItem(td, s) ==
    [type |-> "subprompt", id |-> s, name |-> td.items[s].name,
     folder_id |-> td.items[s].folder_id, folderId |-> folderId(td, s)]

\* createFolderElement: a folder row is draggable at level > 0, that is when
\* it is rendered below another folder; createItemElement: always
draggable(td, item) ==
    item.type = "subprompt"
    \/ /\ item.type = "folder"
       /\ td.folders[item.id].parent_id # 0
       /\ td.folders[item.id].parent_id \in DOMAIN td.folders

TreeItems(td) ==
    {FolderItem(td, f) : f \in FolderIds(td)} \cup {SubpromptItem(td, s) : s \in DOMAIN td.items}

\* requests
Request(method, kind, id, name, parent) ==
    [method |-> method, kind |-> kind, id |-> id, name |-> name, parent |-> parent]

RefreshRequest == Request("GET", "tree", 0, <<>>, 0)

\* the request moveItem sends for a dropped folder: a variant that moves it
moveItemRequestsFolderToo(item, targetFolderId) ==
    IF item.type = "subprompt"
    THEN <<Request("PUT", "subprompt", item.id, item.name, targetFolderId), RefreshRequest>>
    ELSE <<Request("PUT", "folder", item.id, <<"p">>, targetFolderId), RefreshRequest>>

\* moveItem(item, targetFolderId): a subprompt is PUT with the new folder_id
\* and the tree refreshed; any other item type sends nothing
moveItemRequests(item, targetFolderId) ==
    IF item.type = "subprompt"
    THEN <<Request("PUT", "subprompt", item.id, item.name, targetFolderId), RefreshRequest>>
    ELSE <<>>

\* a variant of deleteFolderAndMoveContents that moves the contents to the root
deleteFolderAndMoveContentsRequestsToRoot(td, f) ==
    LET kids == td.folders[f].children
        subs == td.folders[f].subfolders
    IN  [k \in 1..Len(kids) |->
               Request("PUT", "subprompt", kids[k], td.items[kids[k]].name, 0)]
        \o [k \in 1..Len(subs) |->
               Request("PUT", "folder", subs[k], td.folders[subs[k]].name, 0)]
        \o <<Request("DELETE", "folder", f, <<>>, 0), RefreshRequest>>

\* deleteFolderAndMoveContents(folder): children and subfolders are PUT under
\* folder.parent_id, then the folder is deleted and the tree refreshed
deleteFolderAndMoveContentsRequests(td, f) ==
    LET parentId == td.folders[f].parent_id
        kids == td.folders[f].children
        subs == td.folders[f].subfolders
    IN  [k \in 1..Len(kids) |->
               Request("PUT", "subprompt", kids[k], td.items[kids[k]].name, parentId)]
        \o [k \in 1..Len(subs) |->
               Request("PUT", "folder", subs[k], td.folders[subs[k]].name, parentId)]
        \o <<Request("DELETE", "folder", f, <<>>, 0), RefreshRequest>>

\* an operation in flight is the sequence of requests it still has to send,
\* the first of them awaiting its response
Enqueue(requests) ==
    /\ BagCardinality(inflight) < MaxInFlight
    /\ inflight' = inflight (+) SetToBag({requests})

PostsInFlight ==
    BagCardinality([op \in {o \in BagToSet(inflight) : o[1].method = "POST"} |-> inflight[op]])

\* createFolder(folderName, parentId) up to its POST
createFolder(folderName, parentId) ==
    LET name == trim(folderName)
    IN  /\ name # <<>>
        /\ parentId = 0 \/ parentId \in DOMAIN treeData.folders
        /\ ~\E g \in DOMAIN treeData.folders :
                treeData.folders[g].name = name /\ treeData.folders[g].parent_id = parentId
        /\ created + PostsInFlight < MaxFolders
        /\ Enqueue(<<Request("POST", "folder", 0, name, parentId), RefreshRequest>>)
        /\ dropTarget' = NoTreeItem
    /\ UNCHANGED <<storeFolders, storeSubprompts, created, treeData, draggedItem>>
        /\ UNCHANGED <<engineVars, dialogVars>>

\* renameFolder(folder) up to its PUT, which repeats folder.parent_id
renameFolder(f, newName) ==
    /\ f \in FolderIds(treeData)
    /\ newName # <<>>
    /\ trim(newName) # treeData.folders[f].name
    /\ Enqueue(<<Request("PUT", "folder", f, trim(newName), treeData.folders[f].parent_id),
                 RefreshRequest>>)
    /\ dropTarget' = NoTreeItem
    /\ UNCHANGED <<storeFolders, storeSubprompts, created, treeData, draggedItem>>
    /\ UNCHANGED <<engineVars, dialogVars>>

\* deleteFolder(folder) with the choice 'move' for a folder that has contents
deleteFolderAndMoveContents(f) ==
    /\ f \in FolderIds(treeData)
    /\ folderHasContents(treeData, f)
    /\ Enqueue(deleteFolderAndMoveContentsRequests(treeData, f))
    /\ dropTarget' = NoTreeItem
    /\ UNCHANGED <<storeFolders, storeSubprompts, created, treeData, draggedItem>>
    /\ UNCHANGED <<engineVars, dialogVars>>

\* deleteFolder(folder) with the choice 'delete', or for an empty folder
deleteFolderAndAllContents(f) ==
    /\ f \in FolderIds(treeData)
    /\ Enqueue(<<Request("DELETE", "folder", f, <<>>, 0), RefreshRequest>>)
    /\ dropTarget' = NoTreeItem
    /\ UNCHANGED <<storeFolders, storeSubprompts, created, treeData, draggedItem>>
    /\ UNCHANGED <<engineVars, dialogVars>>

\* handleDragStart(event, item)
handleDragStart(item) ==
    /\ item \in TreeItems(treeData)
    /\ draggable(treeData, item)
    /\ draggedItem' = item
    /\ dropTarget' = NoTreeItem
    /\ UNCHANGED <<storeFolders, storeSubprompts, created, treeData, inflight>>
    /\ UNCHANGED <<engineVars, dialogVars>>

\* the early returns of handleDrop
dropIgnored(sourceItem, targetItem) ==
    \/ sourceItem.type = targetItem.type /\ sourceItem.id = targetItem.id
    \/ /\ sourceItem.type = "subprompt"
       /\ targetItem.type = "folder"
       /\ (IF sourceItem.folder_id # 0 THEN sourceItem.folder_id ELSE sourceItem.folderId)
             = targetItem.id

\* "Determine target folder ID"
dropTargetFolderId(targetItem) ==
    IF targetItem.type = "folder" THEN targetItem.id ELSE targetItem.folderId

\* handleDrop(event, targetItem) with moveItem up to its request
handleDrop(targetItem) ==
    /\ draggedItem # NoTreeItem
    /\ targetItem \in TreeItems(treeData)
    /\ draggedItem' = NoTreeItem
    /\ dropTarget' = targetItem
    /\ LET requests == IF dropIgnored(draggedItem, targetItem) THEN <<>>
                       ELSE moveItemRequests(draggedItem, dropTargetFolderId(targetItem))
       IN  IF requests = <<>> THEN UNCHANGED inflight ELSE Enqueue(requests)
    /\ UNCHANGED <<storeFolders, storeSubprompts, created, treeData>>
    /\ UNCHANGED <<engineVars, dialogVars>>

\* the folders a DELETE of folder f removes when the server cascades
RECURSIVE Contained(_, _, _)
Contained(folders, S, n) ==
    IF n = 0 THEN S
    ELSE Contained(folders,
                   S \cup {g \in DOMAIN folders : folders[g].parent_id \in S}, n - 1)

Restrict(fn, S) == [x \in S |-> fn[x]]

\* the server's handlers: POST creates a folder under a fresh id, PUT stores
\* the fields it is sent, DELETE removes the folder alone or with everything
\* it contains
StorePostFolder(req) ==
    /\ created' = created + 1
    /\ storeFolders' = [g \in DOMAIN storeFolders \cup {created + 1} |->
                           IF g = created + 1
                           THEN [name |-> req.name, parent_id |-> req.parent]
                           ELSE storeFolders[g]]
    /\ UNCHANGED storeSubprompts

StorePutFolder(req) ==
    /\ req.id \in DOMAIN storeFolders
    /\ storeFolders' = [storeFolders EXCEPT ![req.id] = [name |-> req.name, parent_id |-> req.parent]]
    /\ UNCHANGED <<storeSubprompts, created>>

StorePutSubprompt(req) ==
    /\ req.id \in DOMAIN storeSubprompts
    /\ storeSubprompts' =
          [storeSubprompts EXCEPT ![req.id] = [name |-> req.name, folder_id |-> req.parent]]
    /\ UNCHANGED <<storeFolders, created>>

StoreDeleteFolder(req, cascade) ==
    /\ req.id \in DOMAIN storeFolders
    /\ LET gone == IF cascade THEN Contained(storeFolders, {req.id}, Cardinality(DOMAIN storeFolders)) ELSE {req.id}
       IN  /\ storeFolders' = Restrict(storeFolders, DOMAIN storeFolders \ gone)
           /\ storeSubprompts' =
                 IF cascade
                 THEN Restrict(storeSubprompts,
                               {s \in DOMAIN storeSubprompts :
                                   storeSubprompts[s].folder_id \notin gone})
                 ELSE storeSubprompts
    /\ UNCHANGED created

\* POST /prompt_companion/subprompts: the subprompt is stored under a fresh id
StorePostSubprompt(req) ==
    /\ LET id == Max(DOMAIN storeSubprompts \cup {0}) + 1
       IN  storeSubprompts' = [s \in DOMAIN storeSubprompts \cup {id} |->
                                  IF s = id
                                  THEN [name |-> req.name, folder_id |-> req.parent]
                                  ELSE storeSubprompts[s]]
    /\ UNCHANGED <<storeFolders, created>>

StoreHandles(req, cascade) ==
    CASE req.method = "POST" /\ req.kind = "subprompt" -> StorePostSubprompt(req)
      [] req.method = "POST" -> StorePostFolder(req)
      [] req.method = "PUT" /\ req.kind = "folder" -> StorePutFolder(req)
      [] req.method = "PUT" /\ req.kind = "subprompt" -> StorePutSubprompt(req)
      [] OTHER -> StoreDeleteFolder(req, cascade)

\* an operation continues after the response to its first pending request:
\* only the requests that move the contents of a deleted folder are followed
\* by more requests whatever the response is
Continue(op, ok) ==
    LET rest == Tail(op)
    IN  IF rest # <<>> /\ (ok \/ Len(rest) > 1)
        THEN inflight' = (inflight (-) SetToBag({op})) (+) SetToBag({rest})
        ELSE inflight' = inflight (-) SetToBag({op})

\* a mutating request is answered with ok
RequestSucceeds(op, cascade) ==
    /\ op \in BagToSet(inflight)
    /\ op[1].method # "GET"
    /\ StoreHandles(op[1], cascade)
    /\ Continue(op, TRUE)
    /\ dropTarget' = NoTreeItem
    /\ UNCHANGED <<treeData, draggedItem>>
    /\ UNCHANGED <<engineVars, dialogVars>>

\* a mutating request is answered with an error status
RequestFails(op) ==
    /\ op \in BagToSet(inflight)
    /\ op[1].method # "GET"
    /\ Continue(op, FALSE)
    /\ dropTarget' = NoTreeItem
    /\ UNCHANGED <<storeFolders, storeSubprompts, created, treeData, draggedItem>>
    /\ UNCHANGED <<engineVars, dialogVars>>

\* fetchApi throws: the operation's catch block ends it
RequestThrows(op) ==
    /\ op \in BagToSet(inflight)
    /\ inflight' = inflight (-) SetToBag({op})
    /\ dropTarget' = NoTreeItem
    /\ UNCHANGED <<storeFolders, storeSubprompts, created, treeData, draggedItem>>
    /\ UNCHANGED <<engineVars, dialogVars>>

\* refreshTreePreservingState: loadTreeData fetches both collections and
\* replaces treeData, with an empty array for a response that is not ok
refreshTreePreservingState(op, subpromptsOk, foldersOk) ==
    /\ op \in BagToSet(inflight)
    /\ op[1].method = "GET"
    /\ treeData' = organizeTreeData(IF subpromptsOk THEN storeSubprompts ELSE <<>>,
                                    IF foldersOk THEN storeFolders ELSE <<>>)
    /\ inflight' = inflight (-) SetToBag({op})
    /\ dropTarget' = NoTreeItem
    /\ UNCHANGED <<storeFolders, storeSubprompts, created, draggedItem>>
    /\ UNCHANGED <<engineVars, dialogVars>>

\* initialize(): the tree is loaded from a store with an acyclic folder graph
InitTree ==
    /\ \E st \in InitialStores :
          /\ storeFolders = st.folders
          /\ storeSubprompts = st.subprompts
          /\ created = Len(st.folders)
          /\ treeData = organizeTreeData(st.subprompts, st.folders)
    /\ inflight = EmptyBag
    /\ draggedItem = NoTreeItem
    /\ dropTarget = NoTreeItem
    /\ promotion = NoPromotion
    /\ walk = NoWalk
    /\ promptState = NoPromptState
    /\ editPanel = NoEditPanel
    /\ manager = NoManager
    /\ allSubprompts = <<>>
    /\ root = [positive |-> <<>>, negative |-> <<>>, order |-> <<>>]
    /\ stack = <<>>
    /\ log = <<>>
    /\ result = NoResult
    /\ final = NoResult
    /\ pc = "idle"
    /\ DialogConstructed

NextTree ==
    \/ \E n \in NewFolderNames, p \in {0} \cup DOMAIN treeData.folders :
          createFolder(n, p) /\ UNCHANGED treeAside
    \/ \E f \in FolderIds(treeData), n \in RenamedFolderNames :
          renameFolder(f, n) /\ UNCHANGED treeAside
    \/ \E f \in FolderIds(treeData) :
          deleteFolderAndMoveContents(f) /\ UNCHANGED treeAside
    \/ \E f \in FolderIds(treeData) :
          deleteFolderAndAllContents(f) /\ UNCHANGED treeAside
    \/ \E item \in TreeItems(treeData) : handleDragStart(item) /\ UNCHANGED treeAside
    \/ \E item \in TreeItems(treeData) : handleDrop(item) /\ UNCHANGED treeAside
    \/ \E op \in BagToSet(inflight), cascade \in BOOLEAN :
          RequestSucceeds(op, cascade) /\ UNCHANGED treeAside
    \/ \E op \in BagToSet(inflight) : RequestFails(op) /\ UNCHANGED treeAside
    \/ \E op \in BagToSet(inflight) : RequestThrows(op) /\ UNCHANGED treeAside
    \/ \E op \in BagToSet(inflight), subpromptsOk \in BOOLEAN, foldersOk \in BOOLEAN :
          refreshTreePreservingState(op, subpromptsOk, foldersOk) /\ UNCHANGED treeAside

SpecTree == InitTree /\ [][NextTree]_vars

\* walking the parent_id chain of a folder comes back to a folder already met
RECURSIVE ChainRevisits(_, _, _)
ChainRevisits(folders, cur, seen) ==
    IF cur = 0 \/ cur \notin DOMAIN folders THEN FALSE
    ELSE IF cur \in seen THEN TRUE
    ELSE ChainRevisits(folders, folders[cur].parent_id, seen \cup {cur})

\* C9: whatever operations of the tree view have run and however their
\* requests interleaved, no folder's parent_id chain in the store revisits a
\* folder.
C9_FolderGraphAcyclic ==
    \A f \in DOMAIN storeFolders : ~ChainRevisits(storeFolders, f, {})

\* folder 1 was renamed, folder 2 was created under it and then moved up to
\* the root by deleteFolderAndMoveContents(1), whose DELETE is still to come,
\* while a renameFolder(2) that repeats the old parent is in flight
C9_Witness ==
    /\ 1 \in DOMAIN storeFolders /\ storeFolders[1].name = <<"q">>
    /\ 2 \in DOMAIN storeFolders /\ storeFolders[2].parent_id = 0
    /\ 2 \in DOMAIN treeData.folders /\ treeData.folders[2].parent_id = 1
    /\ \E op \in BagToSet(inflight) : op[1].method = "DELETE" /\ op[1].id = 1
    /\ \E op \in BagToSet(inflight) :
          op[1].method = "PUT" /\ op[1].id = 2 /\ op[1].parent = 1

\* the folders below folder f in the loaded tree
Descendants(td, f) ==
    {g \in DOMAIN td.folders : g # f /\ g \in Contained(td.folders, {f}, Cardinality(DOMAIN td.folders))}

\* C10: a drop of folder F1 on folder F2 sends nothing when F2 is F1 or below
\* F1, and for every other F2 that is not already the parent of F1 it sends
\* the request that makes F2 the parent of F1.
C10_ReparentValidated ==
    [][ (/\ draggedItem.type = "folder"
         /\ draggedItem' = NoTreeItem
         /\ dropTarget'.type = "folder"
         /\ draggedItem.id \in DOMAIN treeData.folders)
        => IF dropTarget'.id = draggedItem.id
              \/ dropTarget'.id \in Descendants(treeData, draggedItem.id)
           THEN inflight' = inflight
           ELSE \/ treeData.folders[draggedItem.id].parent_id = dropTarget'.id
                \/ \E op \in BagToSet(inflight') :
                     /\ inflight' = inflight (+) SetToBag({op})
                     /\ op[1].method = "PUT" /\ op[1].kind = "folder"
                     /\ op[1].id = draggedItem.id /\ op[1].parent = dropTarget'.id ]_vars

----------------------------------------------------------------------------
(* Deleting a folder and moving its contents up, followed from a tree that  *)
(* holds subprompts as well as folders.                                      *)

\* the store the tree is loaded from: folder 1 at the root level, folder 2 in
\* it and folder 3 in folder 2, with a subprompt in folder 2 and one in folder 1
PromoteStores ==
    { [folders |-> <<[name |-> <<"p">>, parent_id |-> 0],
                     [name |-> <<"q">>, parent_id |-> 1],
                     [name |-> <<"r">>, parent_id |-> 2]>>,
       subprompts |-> <<[name |-> <<"a">>, folder_id |-> 2],
                        [name |-> <<"c">>, folder_id |-> 1]>>] }

\* treeData holds the store as it is now
Synced == treeData = organizeTreeData(storeSubprompts, storeFolders)

\* deleteFolder(folder) with the choice 'move'; the operation is followed when
\* it starts from a freshly loaded tree with nothing else in flight
PromoteStarts(f) ==
    /\ deleteFolderAndMoveContents(f)
    /\ UNCHANGED <<walk, promptState, editPanel, manager>>
    /\ promotion' = IF inflight = EmptyBag /\ Synced
                    THEN [folder |-> f, folders |-> storeFolders,
                          subprompts |-> storeSubprompts, clean |-> TRUE]
                    ELSE NoPromotion

PromoteRequestSucceeds(op, cascade) ==
    /\ RequestSucceeds(op, cascade)
    /\ UNCHANGED treeAside

PromoteRequestFails(op) ==
    /\ RequestFails(op)
    /\ UNCHANGED <<walk, promptState, editPanel, manager>>
    /\ promotion' = NoPromotion

PromoteRequestThrows(op) ==
    /\ RequestThrows(op)
    /\ UNCHANGED <<walk, promptState, editPanel, manager>>
    /\ promotion' = NoPromotion

PromoteRefresh(op, subpromptsOk, foldersOk) ==
    /\ refreshTreePreservingState(op, subpromptsOk, foldersOk)
    /\ UNCHANGED <<walk, promptState, editPanel, manager>>
    /\ promotion' = IF subpromptsOk /\ foldersOk THEN promotion ELSE NoPromotion

InitPromote ==
    /\ \E st \in PromoteStores :
          /\ storeFolders = st.folders
          /\ storeSubprompts = st.subprompts
          /\ created = Len(st.folders)
          /\ treeData = organizeTreeData(st.subprompts, st.folders)
    /\ inflight = EmptyBag
    /\ draggedItem = NoTreeItem
    /\ dropTarget = NoTreeItem
    /\ promotion = NoPromotion
    /\ walk = NoWalk
    /\ promptState = NoPromptState
    /\ editPanel = NoEditPanel
    /\ manager = NoManager
    /\ allSubprompts = <<>>
    /\ root = [positive |-> <<>>, negative |-> <<>>, order |-> <<>>]
    /\ stack = <<>>
    /\ log = <<>>
    /\ result = NoResult
    /\ final = NoResult
    /\ pc = "idle"
    /\ DialogConstructed

NextPromote ==
    \/ \E f \in FolderIds(treeData) : PromoteStarts(f)
    \/ \E op \in BagToSet(inflight), cascade \in BOOLEAN : PromoteRequestSucceeds(op, cascade)
    \/ \E op \in BagToSet(inflight) : PromoteRequestFails(op)
    \/ \E op \in BagToSet(inflight) : PromoteRequestThrows(op)
    \/ \E op \in BagToSet(inflight), subpromptsOk \in BOOLEAN, foldersOk \in BOOLEAN :
          PromoteRefresh(op, subpromptsOk, foldersOk)

SpecPromote == InitPromote /\ [][NextPromote]_vars

\* the store a promote-mode deletion of folder p.folder has to leave behind:
\* the folder gone, its direct child folders and subprompts under its former
\* parent, everything else as it was
PromotedFolders(p) ==
    [g \in DOMAIN p.folders \ {p.folder} |->
        IF p.folders[g].parent_id = p.folder
        THEN [p.folders[g] EXCEPT !.parent_id = p.folders[p.folder].parent_id]
        ELSE p.folders[g]]

PromotedSubprompts(p) ==
    [s \in DOMAIN p.subprompts |->
        IF p.subprompts[s].folder_id = p.folder
        THEN [p.subprompts[s] EXCEPT !.folder_id = p.folders[p.folder].parent_id]
        ELSE p.subprompts[s]]

\* C11: once every request of a deleteFolderAndMoveContents(F) that started
\* from a freshly loaded tree and ran alone has succeeded, F is gone from the
\* store, F's former direct child subprompts and folders are under F's former
\* parent (0 for a root-level F), and every other folder and subprompt,
\* deeper descendants included, is as it was.
C11_PromoteDeletion ==
    (/\ promotion.clean
     /\ \A op \in BagToSet(inflight) : op[1].method = "GET")
    => /\ storeFolders = PromotedFolders(promotion)
       /\ storeSubprompts = PromotedSubprompts(promotion)

\* the root-level folder 1 was deleted with its contents moved up: subprompt
\* 2 and folder 2 are at the root level now, folder 3 and subprompt 1 are
\* still in folder 2, and the tree has been reloaded
C11_Witness ==
    /\ promotion.clean
    /\ promotion.folder = 1
    /\ inflight = EmptyBag
    /\ DOMAIN storeFolders = {2, 3}
    /\ storeFolders[2].parent_id = 0
    /\ storeFolders[3].parent_id = 2
    /\ storeSubprompts[2].folder_id = 0
    /\ storeSubprompts[1].folder_id = 2
    /\ Synced

----------------------------------------------------------------------------
(* organizeTreeData over arbitrary collections: parents that are missing,    *)
(* folders that are their own parent, parent cycles.                         *)

MaxTreeFolders == 2
MaxTreeSubprompts == 2

\* ids that folder_id and parent_id may hold: none (0), every folder that can
\* exist, and one id that names no folder
ParentRefs == 0..(MaxTreeFolders + 1)

FolderCollections ==
    UNION { [1..n -> [name : {<<"p">>}, parent_id : ParentRefs]] : n \in 0..MaxTreeFolders }

SubpromptCollections ==
    UNION { [1..m -> [name : {<<"a">>}, folder_id : ParentRefs]] : m \in 0..MaxTreeSubprompts }

\* initialize(): the constructor's empty treeData, and loadTreeData suspended
\* at its two fetches
InitOrganize ==
    /\ storeFolders \in FolderCollections
    /\ storeSubprompts \in SubpromptCollections
    /\ created = Len(storeFolders)
    /\ treeData = [folders |-> <<>>, items |-> <<>>, rootFolders |-> <<>>]
    /\ inflight = SetToBag({<<RefreshRequest>>})
    /\ draggedItem = NoTreeItem
    /\ dropTarget = NoTreeItem
    /\ promotion = NoPromotion
    /\ walk = NoWalk
    /\ promptState = NoPromptState
    /\ editPanel = NoEditPanel
    /\ manager = NoManager
    /\ allSubprompts = <<>>
    /\ root = [positive |-> <<>>, negative |-> <<>>, order |-> <<>>]
    /\ stack = <<>>
    /\ log = <<>>
    /\ result = NoResult
    /\ final = NoResult
    /\ pc = "idle"
    /\ DialogConstructed

NextOrganize ==
    \/ \E op \in BagToSet(inflight), subpromptsOk \in BOOLEAN, foldersOk \in BOOLEAN :
          refreshTreePreservingState(op, subpromptsOk, foldersOk) /\ UNCHANGED treeAside
    \/ \E op \in BagToSet(inflight) : RequestThrows(op) /\ UNCHANGED treeAside

SpecOrganize == InitOrganize /\ [][NextOrganize]_vars

\* number of positions of list that hold x
CountIn(x, list) == Cardinality({k \in DOMAIN list : list[k] = x})

\* organizeTreeData has produced treeData
TreeLoaded == rootFolderId \in DOMAIN treeData.folders

\* treeData attaches each subprompt of subs and each folder of fol once, where
\* its folder_id or parent_id says when that names a folder of fol, and at
\* the root otherwise
AttachedOnce(td, subs, fol) ==
    /\ DOMAIN td.items = DOMAIN subs
    /\ DOMAIN td.folders = DOMAIN fol \cup {rootFolderId}
    /\ \A s \in DOMAIN subs :
          LET home == IF subs[s].folder_id \in DOMAIN fol
                      THEN subs[s].folder_id
                      ELSE rootFolderId
          IN  \A f \in DOMAIN td.folders :
                 CountIn(s, td.folders[f].children) = IF f = home THEN 1 ELSE 0
    /\ \A g \in DOMAIN fol :
          LET hasParent == fol[g].parent_id \in DOMAIN fol
          IN  /\ \A f \in DOMAIN td.folders :
                    CountIn(g, td.folders[f].subfolders) =
                       IF hasParent /\ f = fol[g].parent_id THEN 1 ELSE 0
              /\ CountIn(g, td.rootFolders) = IF hasParent THEN 0 ELSE 1

\* C12: whatever the fetched collections are (the collection of a failed
\* fetch is empty), organizeTreeData returns a tree in which every subprompt
\* is in the children of exactly one folder, the one its folder_id names if
\* that exists and the root otherwise, and every folder is attached exactly
\* once, to the subfolders of the parent its parent_id names if that exists
\* and to the root-level list otherwise.
C12_OrganizeAttachesOnce ==
    TreeLoaded =>
        \E subpromptsOk \in BOOLEAN, foldersOk \in BOOLEAN :
            AttachedOnce(treeData,
                         IF subpromptsOk THEN storeSubprompts ELSE <<>>,
                         IF foldersOk THEN storeFolders ELSE <<>>)

\* a loaded tree in which folder 1 names a parent that does not exist, folder
\* 2 is in folder 1, one subprompt is in folder 2 and the other names a
\* folder that does not exist
C12_Witness ==
    /\ TreeLoaded
    /\ DOMAIN storeFolders = {1, 2}
    /\ storeFolders[1].parent_id = MaxTreeFolders + 1
    /\ storeFolders[2].parent_id = 1
    /\ DOMAIN storeSubprompts = {1, 2}
    /\ storeSubprompts[1].folder_id = 2
    /\ storeSubprompts[2].folder_id = MaxTreeFolders + 1
    /\ treeData.rootFolders = <<1>>
    /\ treeData.folders[1].subfolders = <<2>>
    /\ treeData.folders[2].children = <<1>>
    /\ treeData.folders[rootFolderId].children = <<2>>

----------------------------------------------------------------------------
(* Folder paths: calculateFolderPath of the edit dialog and                  *)
(* buildPathFromFolder of the tree view, as the loops they are, over folder  *)
(* collections whose parent_id chains may be broken or cyclic.               *)

MaxPathFolders == 2

\* calculateFolderPath: "const maxDepth = 20"
maxDepth == 20

\* folder g is named by the g-th letter; parent_id is none (0), a folder that
\* can exist, or an id that names no folder
PathFolderCollections ==
    UNION { { [g \in 1..n |-> [name |-> <<LowerLetters[g]>>, parent_id |-> parents[g]]] :
                parents \in [1..n -> 0..(MaxPathFolders + 1)] } :
            n \in 0..MaxPathFolders }

\* folderMap[id] / folderLookup[id]: 0 stands for undefined
lookupFolder(folders, id) == IF id # 0 /\ id \in DOMAIN folders THEN id ELSE 0

\* calculateFolderPath(folderId) up to its while loop; id is folderId and outcome
\* the outcome of the fetch of /prompt_companion/folders
calculateFolderPath(id, outcome) ==
    /\ walk.pc # "loop"
    /\ walk' = IF id = 0 \/ outcome # "ok" \/ DOMAIN storeFolders = {}
               THEN [NoWalk EXCEPT !.fn = "calculateFolderPath", !.pc = "done",
                                   !.start = id]
               ELSE [NoWalk EXCEPT !.fn = "calculateFolderPath", !.pc = "loop",
                                   !.start = id,
                                   !.current = lookupFolder(storeFolders, id)]
    /\ UNCHANGED <<engineVars, dialogVars, treeState, promptState, editPanel, manager>>

\* a variant of the loop without the depth test
calculateFolderPathLoopUnbounded ==
    /\ walk.fn = "calculateFolderPath"
    /\ walk.pc = "loop"
    /\ walk.current # 0
    /\ walk' = [walk EXCEPT
                   !.pathParts = <<storeFolders[walk.current].name>> \o @,
                   !.current = lookupFolder(storeFolders, storeFolders[walk.current].parent_id),
                   !.depth = @ + 1]
    /\ UNCHANGED <<engineVars, dialogVars, treeState, promptState, editPanel, manager>>

\* one iteration of "while (currentFolder && depth < maxDepth)"
calculateFolderPathLoop ==
    /\ walk.fn = "calculateFolderPath"
    /\ walk.pc = "loop"
    /\ walk.current # 0
    /\ walk.depth < maxDepth
    /\ walk' = [walk EXCEPT
                   !.pathParts = <<storeFolders[walk.current].name>> \o @,
                   !.current = lookupFolder(storeFolders, storeFolders[walk.current].parent_id),
                   !.depth = @ + 1]
    /\ UNCHANGED <<engineVars, dialogVars, treeState, promptState, editPanel, manager>>

\* the loop is left: return pathParts.join('/')
calculateFolderPathReturn ==
    /\ walk.fn = "calculateFolderPath"
    /\ walk.pc = "loop"
    /\ ~(walk.current # 0 /\ walk.depth < maxDepth)
    /\ walk' = [walk EXCEPT !.pc = "done", !.path = join(walk.pathParts, Slash)]
    /\ UNCHANGED <<engineVars, dialogVars, treeState, promptState, editPanel, manager>>

\* buildPathFromFolder(folder, folderLookup) for a folder of the lookup, up to
\* its while loop
buildPathFromFolder(g) ==
    /\ walk.pc # "loop"
    /\ g \in DOMAIN storeFolders
    /\ walk' = IF storeFolders[g].parent_id = 0
               THEN [NoWalk EXCEPT !.fn = "buildPathFromFolder", !.pc = "done",
                                   !.start = g, !.path = storeFolders[g].name]
               ELSE [NoWalk EXCEPT !.fn = "buildPathFromFolder", !.pc = "loop",
                                   !.start = g, !.current = g]
    /\ UNCHANGED <<engineVars, dialogVars, treeState, promptState, editPanel, manager>>

\* one iteration of "while (current && !visited.has(current.id))"; the break
\* at a folder without parent_id leaves the loop as an undefined current does
buildPathFromFolderLoop ==
    /\ walk.fn = "buildPathFromFolder"
    /\ walk.pc = "loop"
    /\ walk.current # 0
    /\ walk.current \notin walk.visited
    /\ walk' = [walk EXCEPT
                   !.visited = @ \cup {walk.current},
                   !.pathParts = <<storeFolders[walk.current].name>> \o @,
                   !.current = lookupFolder(storeFolders, storeFolders[walk.current].parent_id)]
    /\ UNCHANGED <<engineVars, dialogVars, treeState, promptState, editPanel, manager>>

buildPathFromFolderReturn ==
    /\ walk.fn = "buildPathFromFolder"
    /\ walk.pc = "loop"
    /\ ~(walk.current # 0 /\ walk.current \notin walk.visited)
    /\ walk' = [walk EXCEPT !.pc = "done", !.path = join(walk.pathParts, Slash)]
    /\ UNCHANGED <<engineVars, dialogVars, treeState, promptState, editPanel, manager>>

InitPath ==
    /\ storeFolders \in PathFolderCollections
    /\ storeSubprompts = <<>>
    /\ created = Len(storeFolders)
    /\ treeData = [folders |-> <<>>, items |-> <<>>, rootFolders |-> <<>>]
    /\ inflight = EmptyBag
    /\ draggedItem = NoTreeItem
    /\ dropTarget = NoTreeItem
    /\ promotion = NoPromotion
    /\ walk = NoWalk
    /\ promptState = NoPromptState
    /\ editPanel = NoEditPanel
    /\ manager = NoManager
    /\ allSubprompts = <<>>
    /\ root = [positive |-> <<>>, negative |-> <<>>, order |-> <<>>]
    /\ stack = <<>>
    /\ log = <<>>
    /\ result = NoResult
    /\ final = NoResult
    /\ pc = "idle"
    /\ DialogConstructed

NextPath ==
    \/ \E id \in 0..(MaxPathFolders + 1), outcome \in FetchOutcomes :
          calculateFolderPath(id, outcome)
    \/ calculateFolderPathLoop
    \/ calculateFolderPathReturn
    \/ \E g \in DOMAIN storeFolders : buildPathFromFolder(g)
    \/ buildPathFromFolderLoop
    \/ buildPathFromFolderReturn

SpecPath == InitPath /\ [][NextPath]_vars

\* C13: the loops of both path functions are bounded whatever the parent_id
\* chains are: calculateFolderPath has made as many iterations as pathParts
\* has entries and never more than maxDepth, and buildPathFromFolder has made
\* one iteration per folder in its visited set, so never more than there are
\* folders.
C13_PathWalkBounded ==
    /\ walk.fn = "calculateFolderPath"
          => /\ Len(walk.pathParts) = walk.depth
             /\ walk.depth <= maxDepth
    /\ walk.fn = "buildPathFromFolder"
          => /\ Len(walk.pathParts) = Cardinality(walk.visited)
             /\ walk.visited \subseteq DOMAIN storeFolders

\* calculateFolderPath has returned for a folder whose parent_id chain is a
\* cycle, after maxDepth iterations
C13_Witness ==
    /\ walk.fn = "calculateFolderPath"
    /\ walk.pc = "done"
    /\ walk.depth = maxDepth
    /\ walk.current # 0
    /\ ChainRevisits(storeFolders, walk.start, {})

\* C14: a path computed for a folder whose parent_id chain comes back to a
\* folder already met is the folder's own name, with no ancestor in it.
C14_CycleFallsBackToRoot ==
    (/\ walk.pc = "done"
     /\ walk.pathParts # <<>>
     /\ ChainRevisits(storeFolders, walk.start, {}))
    => walk.path = storeFolders[walk.start].name

----------------------------------------------------------------------------
(* Order sensitivity *)

\* the terms of a text without regard to letter case, as a set
LowerTermSet(text) == {toLowerCase(TermsOf(text)[k]) : k \in DOMAIN TermsOf(text)}

\* the final texts for the root's own texts with another order
FinalWithOrder(order) ==
    finalResult(resolveSubpromptRecursively([root EXCEPT !.order = order], {}, allSubprompts))

\* what the subprompt found for reference token t contributes to a root that
\* refers to it
Contribution(t) ==
    resolveSubpromptRecursively(allSubprompts[findNested(t, allSubprompts)], {t}, allSubprompts)

\* the final text for [ref, self] and the one for [self, ref] hold the same
\* terms, and in another sequence when own and nested are texts with terms and
\* without a common term
SameTermsOtherSequence(refFirst, selfFirst, own, nested) ==
    /\ LowerTermSet(refFirst) = LowerTermSet(selfFirst)
    /\ (/\ LowerTermSet(own) # {}
        /\ LowerTermSet(nested) # {}
        /\ LowerTermSet(own) \cap LowerTermSet(nested) = {})
       => TermsOf(refFirst) # TermsOf(selfFirst)

\* C15: for a root A resolved with the order [ref(B), self], B found in the
\* snapshot, the final positive and negative texts have the same terms (up to
\* letter case) as those for the order [self, ref(B)], and a different
\* sequence of terms whenever A's own text and the text B contributes both
\* have terms and share none.
C15_OrderSensitivity ==
    (/\ pc = "done"
     /\ Len(root.order) = 2
     /\ root.order[2] = Attached
     /\ root.order[1] # Attached
     /\ findNested(root.order[1], allSubprompts) # 0)
    => LET other == FinalWithOrder(<<Attached, root.order[1]>>)
           nested == Contribution(root.order[1])
       IN  /\ SameTermsOtherSequence(final.positive, other.positive,
                                     root.positive, nested.positive)
           /\ SameTermsOtherSequence(final.negative, other.negative,
                                     root.negative, nested.negative)

\* the root's "x, y" resolved after c's "z": "z, x, y", where the other order
\* gives "x, y, z"
C15_Witness ==
    /\ pc = "done"
    /\ root.order = <<TokC, Attached>>
    /\ root.positive = <<"x", ",", " ", "y">>
    /\ allSubprompts[2].order = <<Attached>>
    /\ final.positive = <<"z", ",", " ", "x", ",", " ", "y">>
    /\ FinalWithOrder(<<Attached, TokC>>).positive = <<"x", ",", " ", "y", ",", " ", "z">>

----------------------------------------------------------------------------
(* Orders without the self-marker *)

HasSelf(order) == \E k \in DOMAIN order : order[k] = Attached

\* the subprompt a log entry is about: the root (0) or one of the snapshot
Resolved(who) == IF who = 0 THEN root ELSE allSubprompts[who]

\* the ", "-join of the resolved texts of the references of an order that has
\* no self-marker
ReferencesOnly(subprompt, visited, all) ==
    LET referenced(token) ==
            IF token \in visited \/ findNested(token, all) = 0
            THEN NoResult
            ELSE resolveSubpromptRecursively(all[findNested(token, all)],
                                             visited \cup {token}, all)
        parts == [k \in 1..Len(subprompt.order) |-> referenced(subprompt.order[k])]
    IN  [positive |-> join(filterNonEmpty([k \in 1..Len(parts) |-> trim(parts[k].positive)]),
                           CommaSpace),
         negative |-> join(filterNonEmpty([k \in 1..Len(parts) |-> trim(parts[k].negative)]),
                           CommaSpace)]

\* C16: own text is merged only by calls on a subprompt whose order holds the
\* self-marker; a call on a subprompt without it, the root or a nested one,
\* returns the ", "-join of the resolved texts of its references and nothing
\* of its own positive or negative text.
C16_NoSelfMarkerNoOwnText ==
    /\ \A e \in EventsOf("self") : HasSelf(Resolved(log[e].who).order)
    /\ \A d \in 1..Len(stack) :
          ~HasSelf(stack[d].subprompt.order) /\ stack[d].i > Len(stack[d].subprompt.order)
             => Accumulated(stack[d]) =
                   ReferencesOnly(stack[d].subprompt, stack[d].visited, allSubprompts)
    /\ pc \in {"returned", "done"} /\ ~HasSelf(root.order)
          => result = ReferencesOnly(root, {}, allSubprompts)

\* a root with text "x, y" and order [ref(b)], b with text "x, y" and order
\* [ref(c)], c with text "z" and the self-marker: the result is "z"
C16_Witness ==
    /\ pc = "done"
    /\ root.order = <<TokB>>
    /\ root.positive = <<"x", ",", " ", "y">>
    /\ allSubprompts[1].order = <<TokC>>
    /\ allSubprompts[1].positive = <<"x", ",", " ", "y">>
    /\ allSubprompts[2].order = <<Attached>>
    /\ result.positive = <<"z">>
    /\ EventsOf("self") # {}

----------------------------------------------------------------------------
(* resolveSubpromptRecursively: what a call leaves as it found it *)

\* C19: resolution never mutates what it reads: no step of a call to
\* resolveSubpromptRecursively changes the allSubprompts snapshot or a record
\* or order list in it, the root object, or the subprompt and the visited set
\* of an activation that is already on the stack (the caller's visited set
\* while and after its callee runs).
C19_ResolutionReadsOnly ==
    [][/\ allSubprompts' = allSubprompts
       /\ root' = root
       /\ \A d \in 1..Len(stack) :
             d <= Len(stack')
                => /\ stack'[d].visited = stack[d].visited
                   /\ stack'[d].subprompt = stack[d].subprompt
                   /\ stack'[d].who = stack[d].who]_vars

\* a resolution that went two calls deep, with a non-empty visited set handed
\* on by the first callee, and has returned to resolveNestedSubprompts
C19_Witness ==
    /\ pc = "done"
    /\ \E e \in EventsOf("enter") : Cardinality(log[e].visited) >= 2
    /\ stack = <<>>

----------------------------------------------------------------------------
(* the tree view's operations on subprompts *)

\* the subprompts the store may come to hold
MaxItems == 3

\* what the user types into the name dialogs
NewSubpromptNames == {<<"a", " ">>}
RenamedSubpromptNames == {<<"b">>}

\* values of Date.now() at a duplicateSubprompt
Clock == {<<"1">>}

\* folder p at the root; a subprompt named a at the root and another in p
ItemStores ==
    [folders |-> (1 :> [name |-> <<"p">>, parent_id |-> 0]),
     subprompts |-> (1 :> [name |-> <<"a">>, folder_id |-> 0])
                    @@ (2 :> [name |-> <<"a">>, folder_id |-> 1])]

SubpromptPostsInFlight ==
    BagCardinality([op \in {o \in BagToSet(inflight) :
                               o[1].method = "POST" /\ o[1].kind = "subprompt"} |-> inflight[op]])

\* item.folder_id || (item.folderId && item.folderId !== 'root' ? item.folderId : null)
itemFolderId(item) == IF item.folder_id # 0 THEN item.folder_id ELSE item.folderId

\* createSubprompt(parentId) with the name typed into its dialog, up to its POST
createSubprompt(name, parentId) ==
    /\ name # <<>> /\ trim(name) # <<>>
    /\ parentId = rootFolderId \/ parentId \in FolderIds(treeData)
    /\ Cardinality(DOMAIN storeSubprompts) + SubpromptPostsInFlight < MaxItems
    /\ Enqueue(<<Request("POST", "subprompt", 0, trim(name), parentId), RefreshRequest>>)
    /\ dropTarget' = NoTreeItem
    /\ UNCHANGED <<storeFolders, storeSubprompts, created, treeData, draggedItem>>
    /\ UNCHANGED <<engineVars, dialogVars>>

\* duplicateSubprompt(item) up to its POST
duplicateSubprompt(item, now) ==
    /\ item \in TreeItems(treeData)
    /\ item.type = "subprompt"
    /\ Cardinality(DOMAIN storeSubprompts) + SubpromptPostsInFlight < MaxItems
    /\ Enqueue(<<Request("POST", "subprompt", 0,
                         item.name \o <<"_", "c", "o", "p", "y", "_">> \o now,
                         itemFolderId(item)),
                 RefreshRequest>>)
    /\ dropTarget' = NoTreeItem
    /\ UNCHANGED <<storeFolders, storeSubprompts, created, treeData, draggedItem>>
    /\ UNCHANGED <<engineVars, dialogVars>>

\* renameSubprompt's check "for duplicates in the same folder" over treeData.items
duplicateExists(td, item, trimmedName) ==
    \E s \in DOMAIN td.items :
        /\ s # item.id
        /\ td.items[s].name = trimmedName
        /\ itemFolderId(td.items[s]) = itemFolderId(item)

\* renameSubprompt(item) with the name typed into its dialog, up to its PUT
renameSubprompt(item, newName) ==
    /\ item \in TreeItems(treeData)
    /\ item.type = "subprompt"
    /\ newName # <<>> /\ trim(newName) # item.name
    /\ trim(newName) # <<>>
    /\ ~duplicateExists(treeData, item, trim(newName))
    /\ Enqueue(<<Request("PUT", "subprompt", item.id, trim(newName), itemFolderId(item)),
                 RefreshRequest>>)
    /\ dropTarget' = NoTreeItem
    /\ UNCHANGED <<storeFolders, storeSubprompts, created, treeData, draggedItem>>
    /\ UNCHANGED <<engineVars, dialogVars>>

\* initialize(): the tree is loaded from a store in which no folder holds two
\* subprompts of the same name
InitItems ==
    /\ storeFolders = ItemStores.folders
    /\ storeSubprompts = ItemStores.subprompts
    /\ created = 1
    /\ treeData = organizeTreeData(storeSubprompts, storeFolders)
    /\ inflight = EmptyBag
    /\ draggedItem = NoTreeItem
    /\ dropTarget = NoTreeItem
    /\ promotion = NoPromotion
    /\ walk = NoWalk
    /\ promptState = NoPromptState
    /\ editPanel = NoEditPanel
    /\ manager = NoManager
    /\ allSubprompts = <<>>
    /\ root = [positive |-> <<>>, negative |-> <<>>, order |-> <<>>]
    /\ stack = <<>>
    /\ log = <<>>
    /\ result = NoResult
    /\ final = NoResult
    /\ pc = "idle"
    /\ DialogConstructed

\* the user starts an operation of the tree view when the one before has
\* completed
Idle == inflight = EmptyBag /\ UNCHANGED treeAside

NextItems ==
    \/ \E n \in NewSubpromptNames, p \in DOMAIN treeData.folders : Idle /\ createSubprompt(n, p)
    \/ \E item \in TreeItems(treeData), now \in Clock : Idle /\ duplicateSubprompt(item, now)
    \/ \E item \in TreeItems(treeData), n \in RenamedSubpromptNames :
          Idle /\ renameSubprompt(item, n)
    \/ \E f \in FolderIds(treeData) : Idle /\ deleteFolderAndMoveContents(f)
    \/ \E item \in TreeItems(treeData) : Idle /\ handleDragStart(item)
    \/ \E item \in TreeItems(treeData) : Idle /\ handleDrop(item)
    \/ \E op \in BagToSet(inflight) :
          RequestSucceeds(op, FALSE) /\ UNCHANGED treeAside
    \/ \E op \in BagToSet(inflight) : RequestFails(op) /\ UNCHANGED treeAside
    \/ \E op \in BagToSet(inflight) : RequestThrows(op) /\ UNCHANGED treeAside
    \/ \E op \in BagToSet(inflight), subpromptsOk \in BOOLEAN, foldersOk \in BOOLEAN :
          refreshTreePreservingState(op, subpromptsOk, foldersOk) /\ UNCHANGED treeAside

SpecItems == InitItems /\ [][NextItems]_vars

\* the folder the store's subprompt s is contained in: its folder_id, or the
\* root for a folder_id that names no stored folder
ContainingFolder(s) ==
    IF storeSubprompts[s].folder_id \in DOMAIN storeFolders
    THEN storeSubprompts[s].folder_id ELSE rootFolderId

\* C18: whatever tree-view operations the client accepted, once they have
\* completed no two subprompts contained in the same folder have the same
\* name.
C18_UniqueNamesInFolder ==
    inflight = EmptyBag
       => \A s, t \in DOMAIN storeSubprompts :
             s # t /\ ContainingFolder(s) = ContainingFolder(t)
                => storeSubprompts[s].name # storeSubprompts[t].name

----------------------------------------------------------------------------
(* the edit dialog's nested-subprompt list and saveSubprompt *)

\* the subprompts the server holds when the dialog opens: b and c, each with
\* its own text only
EditorStore ==
    SubSeq(Snapshot([subs |-> <<[positive |-> <<"x">>, negative |-> <<"n">>],
                                [positive |-> <<"z">>, negative |-> <<>>],
                                [positive |-> <<"w">>, negative |-> <<"N">>]>>],
                    <<<<Attached>>, <<Attached>>, <<Attached>>>>), 1, 2)

\* the selections for editing made in one session of the dialog
MaxEdits == 2

\* subpromptData.name of a subprompt saved without a current subprompt
NewSubpromptName == <<"N", "e", "w", " ", "S", "u", "b", "p", "r", "o", "m", "p", "t">>

\* the subprompts the store may come to hold
MaxStored == 3

\* "folder_path: name", or the name alone for a subprompt without folder_path
displayName(subprompt) ==
    IF subprompt.folder_path # <<>>
    THEN subprompt.folder_path \o ColonSpace \o subprompt.name
    ELSE subprompt.name

\* filteredOptions of showAddSubpromptDialog: [Self] and the display names of
\* the snapshot, without the current subprompt's own display name and without
\* the entries already in the list
filteredOptions(all, current, currentNested) ==
    LET availableSubprompts == {displayName(all[k]) : k \in 1..Len(all)}
        withoutCurrent ==
            IF current # 0 /\ storeSubprompts[current].name # <<>>
            THEN availableSubprompts \ {displayName(storeSubprompts[current])}
            ELSE availableSubprompts
    IN  ({SelfMarker} \cup withoutCurrent) \ Range(currentNested)

\* loadSubpromptForEditing(subprompt) with the subprompt object the tree view
\* holds after its last refresh, for a subprompt without folder_id
loadStoredSubpromptForEditing(k) ==
    /\ k \in 1..Len(storeSubprompts)
    /\ storeSubprompts[k].folder_id = ""
    /\ issued < MaxEdits
    /\ currentSubprompt' = k
    /\ form' = [positive |-> storeSubprompts[k].positive,
                negative |-> storeSubprompts[k].negative]
    /\ issued' = issued + 1
    /\ loads' = loads \cup {LoadCall(issued + 1, convertOrderToNested(storeSubprompts[k].order))}
    /\ preview' = updatePreview(form', nestedList, allSubprompts)
    /\ UNCHANGED <<nestedList, arrivals, pendingPreviewUpdate, frames, timers, allSubprompts>>
    /\ UNCHANGED <<root, stack, log, result, final, pc, treeVars>>

\* what a call of loadNestedSubprompts leaves in allSubprompts after its
\* fetch, the server answering with what it holds
storedSnapshotAfterFetch(outcome, all, stored) ==
    CASE outcome = "ok" -> stored
      [] outcome = "notOk" -> all
      [] OTHER -> <<>>

\* loadNestedSubprompts after its fetch returns
loadNestedSubpromptsFromStore(call, outcome) ==
    /\ call \in loads
    /\ outcome \in FetchOutcomes
    /\ allSubprompts' = storedSnapshotAfterFetch(outcome, allSubprompts, storeSubprompts)
    /\ nestedList' = ensureSelf(call.nestedList)
    /\ preview' = updatePreview(form, nestedList', allSubprompts')
    /\ loads' = loads \ {call}
    /\ arrivals' = Append(arrivals, call.id)
    /\ UNCHANGED <<currentSubprompt, form, issued, pendingPreviewUpdate, frames, timers>>
    /\ UNCHANGED <<root, stack, log, result, final, pc, treeVars>>

\* showAddSubpromptDialog, the choice of one of its options and the Add
\* button: addNestedSubprompt appends the item and schedules a preview update.
\* allSubprompts is undefined until a loadNestedSubprompts has returned.
addNestedSubprompt(subpromptId) ==
    /\ arrivals # <<>>
    /\ subpromptId \in filteredOptions(allSubprompts, currentSubprompt, nestedList)
    /\ frames + timers < MaxPreviewJobs + (IF pendingPreviewUpdate = "waiting" THEN 1 ELSE 0)
    /\ nestedList' = Append(nestedList, subpromptId)
    /\ frames' = (IF pendingPreviewUpdate = "waiting" THEN frames - 1 ELSE frames) + 1
    /\ pendingPreviewUpdate' = "waiting"
    /\ preview' = PreviewUpdating
    /\ UNCHANGED <<currentSubprompt, form, loads, issued, arrivals, timers, allSubprompts>>
    /\ UNCHANGED <<root, stack, log, result, final, pc, treeVars>>

\* subpromptData of saveSubprompt
subpromptData(current, f, nested) ==
    [name |-> IF current # 0 THEN storeSubprompts[current].name ELSE NewSubpromptName,
     folder_path |-> IF current # 0 THEN storeSubprompts[current].folder_path ELSE <<>>,
     folder_id |-> IF current # 0 THEN storeSubprompts[current].folder_id ELSE "",
     positive |-> trim(f.positive), negative |-> trim(f.negative),
     order |-> convertNestedToOrder(nested)]

\* the server's PUT /prompt_companion/subprompts/{id} and POST
\* /prompt_companion/subprompts: the record sent replaces the stored one, or
\* is added to the store
StoreSaveSubprompt(stored, current, data) ==
    IF current # 0 THEN [stored EXCEPT ![current] = data] ELSE Append(stored, data)

\* saveSubprompt(): validateContent reports warnings only, the list in the DOM
\* becomes the order, the request is a PUT for a current subprompt and a POST
\* otherwise; the response and the tree view's refresh change nothing of the
\* dialog's list, form or snapshot
saveSubprompt(outcome) ==
    /\ outcome \in FetchOutcomes
    /\ currentSubprompt = 0 => Len(storeSubprompts) < MaxStored
    /\ storeSubprompts' =
          IF outcome = "ok"
          THEN StoreSaveSubprompt(storeSubprompts, currentSubprompt,
                                  subpromptData(currentSubprompt, form, nestedList))
          ELSE storeSubprompts
    /\ UNCHANGED <<storeFolders, created, treeData, inflight, draggedItem, dropTarget,
                   promotion, walk, promptState, editPanel, manager>>
    /\ UNCHANGED <<engineVars, dialogVars>>

InitEditor ==
    /\ allSubprompts = <<>>
    /\ root = [positive |-> <<>>, negative |-> <<>>, order |-> <<>>]
    /\ stack = <<>>
    /\ log = <<>>
    /\ result = NoResult
    /\ final = NoResult
    /\ pc = "idle"
    /\ DialogConstructed
    /\ storeFolders = <<>>
    /\ storeSubprompts = EditorStore
    /\ created = 0
    /\ treeData = [folders |-> <<>>, items |-> <<>>, rootFolders |-> <<>>]
    /\ inflight = EmptyBag
    /\ draggedItem = NoTreeItem
    /\ dropTarget = NoTreeItem
    /\ promotion = NoPromotion
    /\ walk = NoWalk
    /\ promptState = NoPromptState
    /\ editPanel = NoEditPanel
    /\ manager = NoManager

NextEditor ==
    \/ \E k \in 1..Len(storeSubprompts) : loadStoredSubpromptForEditing(k)
    \/ \E call \in loads, outcome \in FetchOutcomes : loadNestedSubpromptsFromStore(call, outcome)
    \/ \E subpromptId \in {SelfMarker} \cup {displayName(allSubprompts[k]) : k \in 1..Len(allSubprompts)} :
          addNestedSubprompt(subpromptId)
    \/ \E outcome \in FetchOutcomes : saveSubprompt(outcome)
    \/ AnimationFrame
    \/ PreviewTimer

SpecEditor == InitEditor /\ [][NextEditor]_vars

\* the stored subprompts that the order of stored subprompt k refers to
StoredRefs(stored, k) ==
    {findNested(t, stored) : t \in Range(stored[k].order) \ {Attached}} \ {0}

RECURSIVE StoredReachableIn(_, _, _)
\* the stored subprompts reachable from the set S in at most n reference steps
StoredReachableIn(stored, S, n) ==
    IF n = 0 THEN S
    ELSE StoredReachableIn(stored, S \cup UNION {StoredRefs(stored, j) : j \in S}, n - 1)

----------------------------------------------------------------------------
(* PromptState.saveAddition and ApiOperations.writePromptAddition *)

\* the saveAddition calls made in one session
MaxSaves == 2

\* an optional value is <<>> (undefined, null) or <<v>>
AdditionA == [name |-> <<"a">>, positive |-> <<"x">>]
AdditionB == [name |-> <<"b">>, positive |-> <<"y">>]
GroupG == [id |-> 1, name |-> <<"g">>]

\* JSON bodies: an array of additions, or an object with the optional fields
\* success, prompt_additions, prompt_groups and data
ArrayBody(items) == [kind |-> "array", items |-> items]

ObjectBody(success, additions, groups, inner) ==
    [kind |-> "object", success |-> success, prompt_additions |-> additions,
     prompt_groups |-> groups, data |-> inner]

\* the collections a response of the server carries
ServerCollections ==
    {[prompt_additions |-> a, prompt_groups |-> g] :
        a \in {<<AdditionA>>, <<AdditionA, AdditionB>>}, g \in {<<>>, <<GroupG>>}}

\* the bodies of an HTTP-ok response: the legacy formats (an array, an object
\* with the collections), the standardized format with the collections at the
\* top or under data, and the standardized failure
ResponseBodies ==
    {ArrayBody(c.prompt_additions) : c \in ServerCollections}
    \cup {ObjectBody(<<>>, <<c.prompt_additions>>, <<c.prompt_groups>>, <<>>) :
             c \in ServerCollections}
    \cup {ObjectBody(<<TRUE>>, <<c.prompt_additions>>, <<c.prompt_groups>>, <<>>) :
             c \in ServerCollections}
    \cup {ObjectBody(<<TRUE>>, <<>>, <<>>, <<c>>) : c \in ServerCollections}
    \cup {ObjectBody(<<FALSE>>, <<>>, <<>>, <<>>)}

\* what api.fetchApi does: it throws, or answers with an error status, or
\* with ok and a body
Responses ==
    {[status |-> s, body |-> ObjectBody(<<>>, <<>>, <<>>, <<>>)] : s \in {"throws", "error"}}
    \cup {[status |-> "ok", body |-> b] : b \in ResponseBodies}

\* writePromptAddition after its fetch: null, the body that has a success
\* field, or the body wrapped as the data of a success response
writePromptAddition(resp) ==
    IF resp.status # "ok" THEN <<>>
    ELSE IF resp.body.kind = "object" /\ resp.body.success # <<>>
    THEN <<resp.body>>
    ELSE <<ObjectBody(<<TRUE>>, <<>>, <<>>, <<resp.body>>)>>

\* "Convert array to object keyed by name": a later addition of the same name
\* replaces an earlier one
keyedByName(additions) ==
    [n \in {additions[k].name : k \in 1..Len(additions)} |->
        additions[Max({k \in 1..Len(additions) : additions[k].name = n})]]

\* updateFromServerData(serverData): data.additions and data.groups after it
\* (lastSync, a timestamp, is left out)
updateFromServerData(serverData) ==
    LET additions == IF serverData.kind = "array" THEN serverData.items
                     ELSE IF serverData.prompt_additions # <<>>
                          THEN serverData.prompt_additions[1] ELSE <<>>
        groups == IF serverData.kind = "object" /\ serverData.prompt_groups # <<>>
                  THEN serverData.prompt_groups[1] ELSE <<>>
    IN  [additions |-> keyedByName(additions), groups |-> groups]

\* saveAddition(addition) up to its await: setLoading(true) and the request
saveAddition(addition) ==
    /\ promptState.issued < MaxSaves
    /\ promptState' = [promptState EXCEPT
           !.isLoading = TRUE,
           !.issued = @ + 1,
           !.calls = @ \cup {[id |-> promptState.issued + 1, addition |-> addition]}]
    /\ UNCHANGED <<engineVars, dialogVars, treeState, walk, editPanel, manager>>

\* saveAddition after writePromptAddition has returned, with its finally block
saveAdditionReturns(call, resp) ==
    /\ call \in promptState.calls
    /\ resp \in Responses
    /\ LET serverData == writePromptAddition(resp)
           after == IF serverData # <<>> THEN updateFromServerData(serverData[1])
                    ELSE promptState.data
       IN  promptState' = [promptState EXCEPT
               !.data = after,
               !.isLoading = FALSE,
               !.calls = @ \ {call},
               !.returned = <<[value |-> serverData # <<>>, response |-> resp,
                               before |-> promptState.data, after |-> after]>>]
    /\ UNCHANGED <<engineVars, dialogVars, treeState, walk, editPanel, manager>>

\* the state after initialize() has loaded the additions and groups
InitState ==
    /\ allSubprompts = <<>>
    /\ root = [positive |-> <<>>, negative |-> <<>>, order |-> <<>>]
    /\ stack = <<>>
    /\ log = <<>>
    /\ result = NoResult
    /\ final = NoResult
    /\ pc = "idle"
    /\ DialogConstructed
    /\ storeFolders = <<>>
    /\ storeSubprompts = <<>>
    /\ created = 0
    /\ treeData = [folders |-> <<>>, items |-> <<>>, rootFolders |-> <<>>]
    /\ inflight = EmptyBag
    /\ draggedItem = NoTreeItem
    /\ dropTarget = NoTreeItem
    /\ promotion = NoPromotion
    /\ walk = NoWalk
    /\ editPanel = NoEditPanel
    /\ manager = NoManager
    /\ \E c \in ServerCollections :
          promptState = [NoPromptState EXCEPT
              !.data = updateFromServerData(ObjectBody(<<>>, <<c.prompt_additions>>,
                                                       <<c.prompt_groups>>, <<>>))]

NextState ==
    \/ \E addition \in {AdditionA, AdditionB} : saveAddition(addition)
    \/ \E call \in promptState.calls, resp \in Responses : saveAdditionReturns(call, resp)

SpecState == InitState /\ [][NextState]_vars

\* the server reported a successful save: an ok status and no success = false
ServerReportedSuccess(resp) ==
    /\ resp.status = "ok"
    /\ resp.body.kind = "object" => resp.body.success # <<FALSE>>

\* the additions a response carries, at the top or under data
ReturnedAdditions(resp) ==
    IF resp.body.kind = "array" THEN resp.body.items
    ELSE IF resp.body.prompt_additions # <<>> THEN resp.body.prompt_additions[1]
    ELSE IF resp.body.data # <<>> THEN resp.body.data[1].prompt_additions
    ELSE <<>>

\* C20: saveAddition returns true only when the server reported a successful
\* save, and data.additions then holds the additions the server returned; when
\* the save fails (error status, success = false, network error) it returns
\* false and leaves data.additions and data.groups as they were.
C20_SaveAdditionReportsServer ==
    \A k \in 1..Len(promptState.returned) :
        LET r == promptState.returned[k]
        IN  /\ r.value => /\ ServerReportedSuccess(r.response)
                          /\ r.after.additions = keyedByName(ReturnedAdditions(r.response))
            /\ ~ServerReportedSuccess(r.response) => ~r.value /\ r.after = r.before

----------------------------------------------------------------------------
(* the edit dialog: whose data the form and the nested list show *)

RECURSIVE IsSubsequence(_, _)
\* s is t with some entries removed
IsSubsequence(s, t) ==
    IF s = <<>> THEN TRUE
    ELSE IF t = <<>> THEN FALSE
    ELSE IF Head(s) = Head(t) THEN IsSubsequence(Tail(s), Tail(t))
    ELSE IsSubsequence(s, Tail(t))

\* the nested list of the subprompt the dialog says it edits (of an empty form
\* when there is none)
NestedListOf(k) ==
    IF k = 0 THEN <<SelfMarker>> ELSE convertOrderToNested(DialogStore[k].order)

\* C21: after any interleaving of loadSubpromptForEditing calls, once no load
\* is pending the positive and negative fields are those of currentSubprompt
\* and the nested list is the list of currentSubprompt, less the entries the
\* user removed; so a save would not send one subprompt's order under the id
\* of another.
C21_FormBelongsToCurrent ==
    loads = {} /\ arrivals # <<>>
       => /\ currentSubprompt # 0
             => form = [positive |-> DialogStore[currentSubprompt].positive,
                        negative |-> DialogStore[currentSubprompt].negative]
          /\ IsSubsequence(nestedList, NestedListOf(currentSubprompt))

----------------------------------------------------------------------------
(* promote-mode deletion: when the folder's DELETE is sent *)

\* nothing in the store is inside folder f
NothingInside(f) ==
    /\ \A g \in DOMAIN storeFolders : storeFolders[g].parent_id # f
    /\ \A s \in DOMAIN storeSubprompts : storeSubprompts[s].folder_id # f

\* C22: in promote-mode deletion the folder's DELETE is issued only if every
\* move of its direct child subprompts and folders succeeded: whenever the
\* server removes a folder, no folder or subprompt of the store is still
\* inside it, so none is left pointing at it or removed together with it.
C22_DeleteOnlyAfterMoves ==
    [][\A f \in DOMAIN storeFolders \ DOMAIN storeFolders' : NothingInside(f)]_vars


\* ---------------------------------------------------------------------------
\* The edit panel and the tree view's selection: clicks on tree items while
\* the panel has unsaved changes, the Save and Revert buttons.
\* editPanel.subprompt is the object this.currentSubprompt refers to,
\* editPanel.items the subprompt objects the tree view holds since its last
\* refresh, editPanel.click the handleItemClick call that is waiting, and
\* editPanel.done what the last finished handleItemClick was answered.

MaxSelections == 2

TypedTexts == {<<"p">>}

ClickItems ==
    {[type |-> "subprompt", id |-> k] : k \in 1..Len(EditorStore)}
       \cup {[type |-> "folder", id |-> 1]}

\* a failed save lets the click proceed as a successful one does
handleUnsavedChangesIgnoresSave(choice, saved) == choice # "cancel"

\* the value handleUnsavedChanges returns once the dialog has resolved with
\* choice and, for 'save', saveSubprompt has returned saved
handleUnsavedChanges(choice, saved) ==
    CASE choice = "cancel" -> FALSE
      [] choice = "save" -> saved
      [] OTHER -> TRUE

\* the selection handleItemClick leaves once it may proceed
selectedAfterClick(selected, item, ctrlKey) ==
    IF ctrlKey
    THEN IF item.type = "subprompt"
         THEN IF item.id \in selected THEN selected \ {item.id} ELSE selected \cup {item.id}
         ELSE selected
    ELSE IF item.type = "subprompt" THEN {item.id} ELSE {}

\* the argument handleItemClick gives onSelectionChange: the tree view's
\* object of a subprompt, null for a folder
selectionOf(item, items) ==
    IF item.type = "subprompt" THEN <<[id |-> item.id, data |-> items[item.id]]>> ELSE <<>>

\* handleTreeSelectionChange(item) of the edit dialog: clearForm for null,
\* loadSubpromptForEditing for a subprompt object, both up to the fetch of
\* loadNestedSubprompts
handleTreeSelectionChange(selection) ==
    /\ issued < MaxSelections
    /\ currentSubprompt' = IF selection # <<>> THEN selection[1].id ELSE 0
    /\ form' = IF selection # <<>>
               THEN [positive |-> selection[1].data.positive,
                     negative |-> selection[1].data.negative]
               ELSE [positive |-> <<>>, negative |-> <<>>]
    /\ issued' = issued + 1
    /\ loads' = loads \cup
          {LoadCall(issued + 1, IF selection # <<>>
                                THEN convertOrderToNested(selection[1].data.order)
                                ELSE <<>>)}
    /\ preview' = updatePreview(form', nestedList, allSubprompts)

\* what no step of the edit panel touches
PanelFrame ==
    UNCHANGED <<root, stack, log, result, final, pc, allSubprompts, nestedList, arrivals,
                pendingPreviewUpdate, frames, storeFolders, created, treeData, inflight,
                draggedItem, dropTarget, promotion, walk, promptState, manager>>

\* the input handler of the positive field: the panel is shown only while a
\* subprompt is loaded, and the unsaved changes dialog covers it while open
inputPositive(text) ==
    /\ editPanel.subprompt # <<>>
    /\ ~(editPanel.click # <<>> /\ editPanel.click[1].at = "dialog")
    /\ form' = [form EXCEPT !.positive = text]
    /\ editPanel' = [editPanel EXCEPT !.unsavedChanges = TRUE]
    /\ timers' = 1
    /\ PanelFrame
    /\ UNCHANGED <<currentSubprompt, loads, issued, preview, storeSubprompts>>

\* the rest of handleItemClick once canProceed is known
clickProceeds(panel, click, items, choice, saved) ==
    /\ handleTreeSelectionChange(selectionOf(click.item, items))
    /\ editPanel' = [panel EXCEPT
          !.selectedItems = selectedAfterClick(panel.selectedItems, click.item, click.ctrlKey),
          !.subprompt = selectionOf(click.item, items),
          !.unsavedChanges = FALSE,
          !.items = items,
          !.click = <<>>,
          !.done = <<[choice |-> choice, saved |-> saved, canProceed |-> TRUE]>>]

clickReturns(panel, choice, saved) ==
    /\ editPanel' = [panel EXCEPT
          !.click = <<>>,
          !.done = <<[choice |-> choice, saved |-> saved, canProceed |-> FALSE]>>]
    /\ UNCHANGED <<currentSubprompt, form, loads, issued, preview>>

\* handleItemClick up to its first wait: with unsaved changes the dialog of
\* handleUnsavedChanges opens, without them the click proceeds at once
handleItemClick(item, ctrlKey) ==
    /\ editPanel.click = <<>>
    /\ LET click == [item |-> item, ctrlKey |-> ctrlKey, at |-> "dialog", data |-> <<>>]
       IN  IF editPanel.unsavedChanges
           THEN /\ editPanel' = [editPanel EXCEPT !.click = <<click>>, !.done = <<>>]
                /\ UNCHANGED <<currentSubprompt, form, loads, issued, preview>>
           ELSE clickProceeds(editPanel, click, editPanel.items, "none", FALSE)
    /\ PanelFrame
    /\ UNCHANGED <<timers, storeSubprompts>>

\* subpromptData of saveSubprompt, from the object this.currentSubprompt
\* refers to
subpromptDataOf(current, f, nested) ==
    [name |-> current.name, folder_path |-> current.folder_path,
     folder_id |-> current.folder_id,
     positive |-> trim(f.positive), negative |-> trim(f.negative),
     order |-> convertNestedToOrder(nested)]

\* the unsaved changes dialog resolves: Cancel ends the click, Discard lets it
\* proceed, Save calls saveSubprompt, which sends its request and waits
unsavedChangesDialog(choice) ==
    /\ editPanel.click # <<>>
    /\ editPanel.click[1].at = "dialog"
    /\ choice \in {"save", "discard", "cancel"}
    /\ LET click == editPanel.click[1]
           sent == [id |-> editPanel.subprompt[1].id,
                    data |-> subpromptDataOf(editPanel.subprompt[1].data, form, nestedList)]
       IN  CASE choice = "save" ->
                  /\ editPanel' = [editPanel EXCEPT
                        !.click = <<[click EXCEPT !.at = "saving", !.data = <<sent>>]>>]
                  /\ UNCHANGED <<currentSubprompt, form, loads, issued, preview>>
             [] handleUnsavedChanges(choice, FALSE) ->
                  clickProceeds(editPanel, click, editPanel.items, choice, FALSE)
             [] OTHER -> clickReturns(editPanel, choice, FALSE)
    /\ PanelFrame
    /\ UNCHANGED <<timers, storeSubprompts>>

\* the tree view's objects after refreshTreePreservingState, whose fetch may
\* fail and then leaves them as they were
itemsAfterRefresh(items, stored, refreshed) == IF refreshed THEN stored ELSE items

\* the store after the PUT of saveSubprompt
storeAfterSave(stored, sent, saved) ==
    IF saved THEN [stored EXCEPT ![sent.id] = sent.data] ELSE stored

\* saveSubprompt called by handleUnsavedChanges returns: on an ok response
\* the flag is cleared, the tree is refreshed and the click proceeds
saveForClickReturns(outcome, refreshed) ==
    /\ editPanel.click # <<>>
    /\ editPanel.click[1].at = "saving"
    /\ outcome \in FetchOutcomes
    /\ LET click == editPanel.click[1]
           saved == outcome = "ok"
           items == IF saved
                    THEN itemsAfterRefresh(editPanel.items, storeSubprompts', refreshed)
                    ELSE editPanel.items
       IN  /\ storeSubprompts' = storeAfterSave(storeSubprompts, click.data[1], saved)
           /\ IF handleUnsavedChanges("save", saved)
              THEN clickProceeds(editPanel, click, items, "save", saved)
              ELSE clickReturns(editPanel, "save", saved)
    /\ PanelFrame
    /\ UNCHANGED timers

\* the Save button: saveSubprompt from its request to its return
saveButton(outcome, refreshed) ==
    /\ editPanel.subprompt # <<>>
    /\ editPanel.click = <<>>
    /\ outcome \in FetchOutcomes
    /\ LET saved == outcome = "ok"
           sent == [id |-> editPanel.subprompt[1].id,
                    data |-> subpromptDataOf(editPanel.subprompt[1].data, form, nestedList)]
       IN  /\ storeSubprompts' = storeAfterSave(storeSubprompts, sent, saved)
           /\ editPanel' =
                 IF saved
                 THEN [editPanel EXCEPT
                         !.unsavedChanges = FALSE,
                         !.items = itemsAfterRefresh(editPanel.items, storeSubprompts', refreshed)]
                 ELSE editPanel
    /\ PanelFrame
    /\ UNCHANGED <<currentSubprompt, form, loads, issued, preview, timers>>

\* the Revert button: revertChanges loads the object this.currentSubprompt
\* refers to
revertChanges ==
    /\ editPanel.subprompt # <<>>
    /\ editPanel.click = <<>>
    /\ handleTreeSelectionChange(editPanel.subprompt)
    /\ editPanel' = [editPanel EXCEPT !.unsavedChanges = FALSE]
    /\ PanelFrame
    /\ UNCHANGED <<timers, storeSubprompts>>

InitSelect ==
    /\ allSubprompts = <<>>
    /\ root = [positive |-> <<>>, negative |-> <<>>, order |-> <<>>]
    /\ stack = <<>>
    /\ log = <<>>
    /\ result = NoResult
    /\ final = NoResult
    /\ pc = "idle"
    /\ DialogConstructed
    /\ storeFolders = <<>>
    /\ storeSubprompts = EditorStore
    /\ created = 0
    /\ treeData = [folders |-> <<>>, items |-> <<>>, rootFolders |-> <<>>]
    /\ inflight = EmptyBag
    /\ draggedItem = NoTreeItem
    /\ dropTarget = NoTreeItem
    /\ promotion = NoPromotion
    /\ walk = NoWalk
    /\ promptState = NoPromptState
    /\ editPanel = [NoEditPanel EXCEPT !.items = EditorStore]
    /\ manager = NoManager

NextSelect ==
    \/ \E text \in TypedTexts : inputPositive(text)
    \/ \E item \in ClickItems, ctrlKey \in BOOLEAN : handleItemClick(item, ctrlKey)
    \/ \E choice \in {"save", "discard", "cancel"} : unsavedChangesDialog(choice)
    \/ \E outcome \in FetchOutcomes, refreshed \in BOOLEAN : saveForClickReturns(outcome, refreshed)
    \/ \E outcome \in FetchOutcomes, refreshed \in BOOLEAN : saveButton(outcome, refreshed)
    \/ revertChanges
    \/ \E call \in loads, outcome \in FetchOutcomes : loadNestedSubpromptsFromStore(call, outcome)
    \/ PreviewTimer

SpecSelect == InitSelect /\ [][NextSelect]_vars

\* what the claim calls the selection and the loaded subprompt
Selection == <<editPanel.selectedItems, editPanel.subprompt, currentSubprompt>>

\* C23: while the edit panel has unsaved changes, a click on a tree item
\* changes the selection and the loaded subprompt only in the step in which
\* the user chose Discard or in which the save the user chose returned
\* successfully; a click that ends with Cancel or a failed save leaves the
\* selection, the loaded subprompt, the form and the unsavedChanges flag as
\* they were
C23_SelectionWaitsForChoice ==
    [][/\ (editPanel.unsavedChanges \/ editPanel.click # <<>>) /\ Selection' # Selection
          => /\ editPanel.click # <<>>
             /\ editPanel'.done # <<>>
             /\ \/ editPanel'.done[1].choice = "discard"
                \/ editPanel'.done[1].choice = "save" /\ editPanel'.done[1].saved
       /\ /\ editPanel.click # <<>>
          /\ editPanel'.click = <<>>
          /\ \/ editPanel'.done[1].choice = "cancel"
             \/ editPanel'.done[1].choice = "save" /\ ~editPanel'.done[1].saved
          => /\ Selection' = Selection
             /\ form' = form
             /\ nestedList' = nestedList
             /\ editPanel'.unsavedChanges = editPanel.unsavedChanges]_vars

\* a click made over unsaved changes has ended with a failed save
C23_Witness ==
    /\ editPanel.done # <<>>
    /\ editPanel.done[1].choice = "save"
    /\ ~editPanel.done[1].saved
    /\ editPanel.click = <<>>
    /\ editPanel.unsavedChanges
    /\ editPanel.selectedItems # {}


\* ---------------------------------------------------------------------------
\* C24: every order that saveSubprompt has sent to the store for a subprompt
\* loaded in the dialog contains the self-marker "attached", also when Save is
\* pressed while loadNestedSubprompts still waits for its fetch
C24_SavedOrderKeepsAttached ==
    \A k \in 1..Len(EditorStore) : Attached \in Range(storeSubprompts[k].order)


\* ---------------------------------------------------------------------------
\* the positive and negative fields as the store holds them for subprompt k,
\* which is what the most recent successful save of k has sent
savedFields(k) ==
    [positive |-> storeSubprompts[k].positive, negative |-> storeSubprompts[k].negative]

\* C25: revertChanges restores the form to the last saved state: a step of
\* revertChanges leaves in the positive and negative fields the values of the
\* most recent successful save of the loaded subprompt, and starts the load
\* of the list that save has sent
C25_RevertRestoresLastSave ==
    [][revertChanges
         => /\ form' = savedFields(currentSubprompt)
            /\ \E call \in loads' \ loads :
                  call.nestedList = convertOrderToNested(storeSubprompts[currentSubprompt].order)]_vars


\* ---------------------------------------------------------------------------
\* C26: ui.isLoading is true in every state in which a call of PromptState is
\* awaiting its server response, two overlapping calls included, and false
\* once all of them have completed
C26_LoadingWhileAwaiting == promptState.isLoading <=> promptState.calls # {}


\* ---------------------------------------------------------------------------
\* PromptAdditionManager.renameSelectedAddition. manager.promptAdditions and
\* manager.server are the names of the additions the manager and the store
\* hold, manager.rename the call that is waiting, manager.done the calls that
\* have finished.

MaxRenames == 2

AdditionNames == {"a", "b", "c"}

\* the store after POST /prompt-companion/prompt-addition and after DELETE
\* /prompt-companion/prompt-addition/{name}: a request that is answered ok has
\* been carried out, any other has changed nothing
StoreWriteAddition(server, name, outcome) ==
    IF outcome = "ok" THEN server \cup {name} ELSE server

StoreDeleteAddition(server, name, outcome) ==
    IF outcome = "ok" THEN server \ {name} ELSE server

RenameFrame == UNCHANGED <<engineVars, dialogVars, treeState, walk, promptState, editPanel>>

\* a click on an entry of the additions list
selectAddition(name) ==
    /\ manager.rename = <<>>
    /\ name \in manager.promptAdditions
    /\ manager' = [manager EXCEPT !.selectedAdditionName = <<name>>]
    /\ RenameFrame

\* renameSelectedAddition up to the await of writePromptAddition: it returns
\* at once without a selection, for an empty or unchanged name and for a name
\* the manager already holds
renameSelectedAddition(newName) ==
    /\ manager.rename = <<>>
    /\ Len(manager.done) < MaxRenames
    /\ manager.selectedAdditionName # <<>>
    /\ newName # manager.selectedAdditionName[1]
    /\ newName \notin manager.promptAdditions
    /\ manager' = [manager EXCEPT !.rename =
          <<[currentName |-> manager.selectedAdditionName[1], newName |-> newName,
             at |-> "write"]>>]
    /\ RenameFrame

\* writePromptAddition returns; its value is not looked at
renameAfterWrite(outcome) ==
    /\ manager.rename # <<>>
    /\ manager.rename[1].at = "write"
    /\ outcome \in FetchOutcomes
    /\ manager' = [manager EXCEPT
          !.server = StoreWriteAddition(@, manager.rename[1].newName, outcome),
          !.rename = <<[manager.rename[1] EXCEPT !.at = "delete"]>>]
    /\ RenameFrame

\* deletePromptAddition returns; its value is not looked at
renameAfterDelete(outcome) ==
    /\ manager.rename # <<>>
    /\ manager.rename[1].at = "delete"
    /\ outcome \in FetchOutcomes
    /\ manager' = [manager EXCEPT
          !.server = StoreDeleteAddition(@, manager.rename[1].currentName, outcome),
          !.rename = <<[manager.rename[1] EXCEPT !.at = "get"]>>]
    /\ RenameFrame

\* getPromptAdditions returns the store's additions or null, and the new name
\* becomes the selected one
renameAfterGet(outcome) ==
    /\ manager.rename # <<>>
    /\ manager.rename[1].at = "get"
    /\ outcome \in FetchOutcomes
    /\ manager' = [manager EXCEPT
          !.promptAdditions = IF outcome = "ok" THEN manager.server ELSE @,
          !.selectedAdditionName = <<manager.rename[1].newName>>,
          !.rename = <<>>,
          !.done = Append(@, [currentName |-> manager.rename[1].currentName,
                              newName |-> manager.rename[1].newName])]
    /\ RenameFrame

InitRename ==
    /\ allSubprompts = <<>>
    /\ root = [positive |-> <<>>, negative |-> <<>>, order |-> <<>>]
    /\ stack = <<>>
    /\ log = <<>>
    /\ result = NoResult
    /\ final = NoResult
    /\ pc = "idle"
    /\ DialogConstructed
    /\ storeFolders = <<>>
    /\ storeSubprompts = <<>>
    /\ created = 0
    /\ treeData = [folders |-> <<>>, items |-> <<>>, rootFolders |-> <<>>]
    /\ inflight = EmptyBag
    /\ draggedItem = NoTreeItem
    /\ dropTarget = NoTreeItem
    /\ promotion = NoPromotion
    /\ walk = NoWalk
    /\ promptState = NoPromptState
    /\ editPanel = NoEditPanel
    /\ manager = [NoManager EXCEPT !.promptAdditions = {"a", "b"}, !.server = {"a", "b"}]

NextRename ==
    \/ \E name \in AdditionNames : selectAddition(name)
    \/ \E newName \in AdditionNames : renameSelectedAddition(newName)
    \/ \E outcome \in FetchOutcomes : renameAfterWrite(outcome)
    \/ \E outcome \in FetchOutcomes : renameAfterDelete(outcome)
    \/ \E outcome \in FetchOutcomes : renameAfterGet(outcome)

SpecRename == InitRename /\ [][NextRename]_vars

\* C27: renameSelectedAddition never loses the addition: once the call has
\* finished, the store holds the addition under the old or under the new
\* name, and the manager's collection is the store's
C27_RenameKeepsAddition ==
    manager.rename = <<>> /\ manager.done # <<>>
       => LET last == manager.done[Len(manager.done)]
          IN  /\ last.currentName \in manager.server \/ last.newName \in manager.server
              /\ manager.promptAdditions = manager.server


\* ---------------------------------------------------------------------------
\* The tree view's walks up the parent chain that expand the ancestors of a
\* folder: the recursion of expandParentFolders and the while loop of
\* createSubprompt. walk.current is the folder the walk is at (0 when it has
\* left the collection), walk.visited the ids added to expandedFolders,
\* walk.depth the activations of expandParentFolders on the call stack.

\* the activations the call stack holds before the engine raises RangeError
MaxCallStack == 4

RangeError == <<"R", "a", "n", "g", "e", "E", "r", "r", "o", "r">>

ExpandFrame == UNCHANGED <<engineVars, dialogVars, treeState, promptState, editPanel, manager>>

\* expandParentFolders(folderId), the outermost call
expandParentFolders(startId) ==
    /\ walk.pc \in {"idle", "done"}
    /\ walk' = [NoWalk EXCEPT !.fn = "expandParentFolders", !.pc = "loop",
                              !.start = startId, !.current = startId, !.depth = 1]
    /\ ExpandFrame

\* the body of one activation: it returns for no id, 'root' and an unknown
\* folder, marks the folder as expanded and calls itself for a parent_id
\* that is set; the calls return one after the other once the innermost has
\* returned, and a call that the stack cannot hold raises RangeError
expandParentFoldersBody ==
    /\ walk.fn = "expandParentFolders"
    /\ walk.pc = "loop"
    /\ LET folder == lookupFolder(storeFolders, walk.current)
       IN  walk' =
             IF folder = 0
             THEN [walk EXCEPT !.pc = "done", !.depth = 0]
             ELSE IF storeFolders[folder].parent_id = 0
                  THEN [walk EXCEPT !.pc = "done", !.depth = 0,
                                    !.visited = @ \cup {folder}]
                  ELSE IF walk.depth = MaxCallStack
                       THEN [walk EXCEPT !.pc = "done", !.depth = 0,
                                         !.visited = @ \cup {folder},
                                         !.path = RangeError]
                       ELSE [walk EXCEPT !.visited = @ \cup {folder},
                                         !.current = storeFolders[folder].parent_id,
                                         !.depth = @ + 1]
    /\ ExpandFrame

\* createSubprompt after its POST was answered ok, up to its while loop: the
\* parent folder is added to expandedFolders, and the loop is entered when
\* treeData.folders holds it
createSubpromptExpands(parentId) ==
    /\ walk.pc \in {"idle", "done"}
    /\ parentId # 0
    /\ walk' = [NoWalk EXCEPT !.fn = "createSubprompt",
                              !.pc = IF lookupFolder(storeFolders, parentId) # 0
                                     THEN "loop" ELSE "done",
                              !.start = parentId,
                              !.current = lookupFolder(storeFolders, parentId),
                              !.visited = {parentId}]
    /\ ExpandFrame

\* the test of "while (currentFolder && currentFolder.parent_id &&
\* currentFolder.parent_id !== 'root')"
createSubpromptLoop ==
    /\ walk.fn = "createSubprompt"
    /\ walk.pc = "loop"
    /\ walk' = IF walk.current # 0 /\ storeFolders[walk.current].parent_id # 0
               THEN [walk EXCEPT !.pc = "body"]
               ELSE [walk EXCEPT !.pc = "done"]
    /\ ExpandFrame

\* one iteration of the loop
createSubpromptLoopBody ==
    /\ walk.fn = "createSubprompt"
    /\ walk.pc = "body"
    /\ walk' = [walk EXCEPT
                   !.pc = "loop",
                   !.visited = @ \cup {storeFolders[walk.current].parent_id},
                   !.current = lookupFolder(storeFolders,
                                            storeFolders[walk.current].parent_id)]
    /\ ExpandFrame

InitExpand ==
    /\ storeFolders \in PathFolderCollections
    /\ storeSubprompts = <<>>
    /\ created = Len(storeFolders)
    /\ treeData = [folders |-> <<>>, items |-> <<>>, rootFolders |-> <<>>]
    /\ inflight = EmptyBag
    /\ draggedItem = NoTreeItem
    /\ dropTarget = NoTreeItem
    /\ promotion = NoPromotion
    /\ walk = NoWalk
    /\ promptState = NoPromptState
    /\ editPanel = NoEditPanel
    /\ manager = NoManager
    /\ allSubprompts = <<>>
    /\ root = [positive |-> <<>>, negative |-> <<>>, order |-> <<>>]
    /\ stack = <<>>
    /\ log = <<>>
    /\ result = NoResult
    /\ final = NoResult
    /\ pc = "idle"
    /\ DialogConstructed

NextExpand ==
    \/ \E startId \in 0..(MaxPathFolders + 1) : expandParentFolders(startId)
    \/ expandParentFoldersBody
    \/ \E parentId \in 0..(MaxPathFolders + 1) : createSubpromptExpands(parentId)
    \/ createSubpromptLoop
    \/ createSubpromptLoopBody

\* the event loop runs a handler that has started to its end
SpecExpand ==
    /\ InitExpand
    /\ [][NextExpand]_vars
    /\ WF_vars(expandParentFoldersBody)
    /\ WF_vars(createSubpromptLoop)
    /\ WF_vars(createSubpromptLoopBody)

\* C28: every walk up the parent chain that expands ancestors terminates,
\* whatever the folder collection is, a cyclic parent_id chain included
C28_ExpansionTerminates == (walk.pc = "loop") ~> (walk.pc = "done")

====
